---- MODULE Spec2Model ----
(***************************************************************************)
(* A model of AdGuard Home's HTTP control layer (internal/home/control.go), *)
(* of the hosts-file container (internal/aghnet/etchostscontainer.go) and  *)
(* of the WHOIS enrichment queue (internal/home/whois.go).                 *)
(***************************************************************************)
EXTENDS Integers, Sequences, FiniteSets, TLC

(***************************************************************************)
(* Bounds of the model.                                                    *)
(***************************************************************************)
\* number of HTTP requests in flight
NumReqs == 2
\* longest hosts file, in lines
MaxLines == 2
\* most files found in the hosts directories
MaxDirFiles == 1
\* number of write events the file watcher delivers
MaxEvents == 3
\* number of concurrent readers of the hosts tables
NumReaders == 1
\* Capacity of the LRU cache ipAddrs in the model (MaxCount is 10000).
CacheMaxCount == 1
\* Capacity of ipChan in the model (the channel is made with 255).
IPChanCap == 1
\* Number of times the clock is advanced.
MaxTicks == 2
\* Number of lines of a text given to whoisParse.
MaxParseLines == 2

(***************************************************************************)
(* Strings are sequences of one-character strings, so that prefix tests    *)
(* are computed and not assumed.                                           *)
(***************************************************************************)
HasPrefix(s, prefix) ==
    /\ Len(s) >= Len(prefix)
    /\ SubSeq(s, 1, Len(prefix)) = prefix

PathInstallHtml == <<"/", "i", "n", "s", "t", "a", "l", "l", ".", "h">>
PathInstaller == <<"/", "i", "n", "s", "t", "a", "l", "l", "e", "r">>
PathAssetsJs == <<"/", "a", "s", "s", "e", "t", "s", "/", "a">>
PathStatus == <<"/", "s", "t", "a", "t", "u", "s">>
PathUpdate == <<"/", "u", "p", "d", "a", "t", "e">>
PathRemove == <<"/", "r", "e", "m", "o", "v", "e">>
PathDNSQuery == <<"/", "d", "n", "s", "-", "q", "u", "e", "r", "y">>

PrefixInstall == <<"/", "i", "n", "s", "t", "a", "l", "l", ".">>
PrefixAssets == <<"/", "a", "s", "s", "e", "t", "s", "/">>

MethodGet == "GET"
MethodPost == "POST"
MethodPut == "PUT"
MethodDelete == "DELETE"
Methods == {MethodGet, MethodPost, MethodPut, MethodDelete}

\* The registrations made through httpRegister(method, url, handler): the
\* url and the method each is registered with.  The method "" is the
\* registration that skips auth, gzip and ensure.
Mux ==
    { [url |-> PathInstallHtml, method |-> ""],
      [url |-> PathAssetsJs, method |-> MethodGet],
      [url |-> PathInstaller, method |-> MethodPost],
      [url |-> PathStatus, method |-> MethodGet],
      [url |-> PathUpdate, method |-> MethodPut],
      [url |-> PathRemove, method |-> MethodDelete],
      [url |-> PathDNSQuery, method |-> ""] }

Paths == {reg.url : reg \in Mux}

\* The method the route of a path was registered with.
RouteOf(path) == (CHOOSE reg \in Mux : reg.url = path).method

Reqs == 1..NumReqs

StatusNone == 0
StatusOK == 200
StatusFound == 302
StatusTemporaryRedirect == 307
StatusBadRequest == 400
StatusUnauthorized == 401
StatusMethodNotAllowed == 405

VARIABLES
    \* Context.firstRun
    firstRun,
    \* Context.controlLock: 0 when free, else the request holding it
    controlLock,
    \* Context.web: httpsServer.server # nil, forceHTTPS
    webHTTPS, forceHTTPS,
    \* per request: position in the middleware chain
    rpc,
    \* per request: r.URL.Path
    rpath,
    \* per request: r.Method, "" until ensure reads it
    rmethod,
    \* per request: status code written, StatusNone until written
    rresp,
    \* per request: Location header of a redirect, "" if none
    rloc,
    \* per request: the steps of the chain that have run for it
    rran,
    \* the main hosts file (ehc.hostsFn): its lines, or NoFile
    hostsFile,
    \* the files found in ehc.hostsDirs, in ReadDir order
    dirFiles,
    \* ehc.table and ehc.tableReverse: a map and the reload that made it
    table, tableReverse,
    \* ehc.lock: the writer holds it; the number of readers holding it
    lockW, lockR,
    \* ehc.onChanged # nil
    onChanged,
    \* updateHosts: position, caller, local maps, next directory entry
    upc, ucaller, newTable, newTableRev, udir,
    \* number of updateHosts calls so far
    nReloads,
    \* number of onChanged calls made by the current updateHosts call
    ucalls,
    \* how far Start has got: "inited", "starting", "started"
    phase,
    \* ehc.watcher: "nil", "open" or "closed"
    watcher,
    \* watcher.Events and watcher.Errors have been closed
    eventsClosed, errorsClosed,
    \* ehc.onlyWritesChan: its buffer, and how many times it was closed
    onlyWritesChan, nChanCloses,
    \* the goroutine onlyWrites: position and the event it holds
    owPc, owEvent,
    \* the goroutine watcherLoop: position and the event it holds
    wlPc, wlEvent,
    \* counts: write events delivered by the watcher, write events sent to
    \* onlyWritesChan, events watcherLoop took in its outer select, events
    \* it drained, updateHosts calls it made
    nEvents, nSent, nTaken, nDrained, nWlReloads,
    \* for the event watcherLoop holds: the events queued behind it when
    \* it was taken, and the events drained since
    roundQueued, roundDrained,
    \* per reader: position, and the reload whose map it reads
    rdpc, rdseen,
    \* time.Now().Unix(), and how many times it was advanced
    clock, nTicks,
    \* w.ipAddrs: entries [key, val], most recently used first
    ipAddrs,
    \* w.ipChan: its buffer
    ipChan,
    \* per caller of Begin: position, the argument ip, the local now
    wpc, wip, wnow,
    \* workerLoop: the address it is processing, NoIP while it waits
    wkIP,
    \* workerLoop: what queryAll returned to process, NoResult before that
    wkRes,
    \* a call of queryAll: its target (empty when there is no call), its
    \* locals i and server, what it returned, and the queries it made
    qtarget, qi, qserver, qres, qsent,
    \* a call of whoisParse: its argument and the map it returned
    pdata, pm,
    \* the revision of the stats handlers that is built
    revision,
    \* StatsCtx: enabled, limitIvl (limitHours in http.go), ignored
    enabled, limitIvl, ignored,
    \* s.lock: "free" or the task that locked it; the process has ended
    \* with a fatal error
    statsLock, crashed,
    \* per task that serves stats requests: position and response
    spc, sresp,
    \* the request that changes the configuration, and the calls of
    \* configModified made for it
    sreq, nmod,
    \* the stats handlers statement by statement: per task its position and
    \* its request; the response of the GET and what it has read so far; the
    \* last configuration that no handler was in the middle of storing, and
    \* the configurations that a GET in progress could have met
    rwpc, rwreq, rwresp, rbuf, quiet, stored,
    \* DNSFilter: Config.SafeSearchConf and confLock (its writer and its
    \* readers); per task that serves safe-search requests its position,
    \* its request, its response, its local resp, and the calls of
    \* Config.ConfigModified made for the request
    safeSearchConf, confLock, sspc, ssreq, ssresp, sslocal, ssmod,
    \* a request for a mobile configuration and what was written to its
    \* http.ResponseWriter
    mcreq, mcresp,
    \* v4Server: leases in the order of s.leases; the outcome of the last
    \* call on the server; per client the stage of its exchange with the
    \* address it was offered; and the leases that AddStaticLease accepted
    \* and RemoveStaticLease has not removed
    leases, dhcpret, xchg, statics,
    \* dnsforward.Server: the fields the stages read; the dnsContext of the
    \* query in the pipeline; the stage that is next; and the resultCode of
    \* the stage that ran last
    dnsSrv, dctx, dnspc, dnsrc,
    \* clients.SetWhoisInfo: the info of each client id that has one
    whoisInfo,
    \* per address: the second at which Begin last recorded it, NoTime when
    \* it has no cache entry
    recAt,
    \* per address: the second of the last Begin that enqueued it since it
    \* has its cache entry, NoTime if there is none
    lastEnq,
    \* per address: the second of the last Begin that found the queue full
    \* since it has its cache entry, NoTime if there is none
    dropAt,
    \* scripts/translations: the configured languages, the position of main,
    \* the languages sent on the channel, whether the channel is closed, each
    \* worker's position and URL, how often each URL was received, the GETs
    \* performed and the files written
    dlLangs, dlMain, dlSent, dlClosed, dlWorker, dlTaken, dlGets, dlFiles,
    \* postInstall on its own: Context.firstRun and Context.web, the request
    \* and what was written for it
    piCtx, piReq, piResp

httpVars == <<firstRun, controlLock, webHTTPS, forceHTTPS, rpc, rpath,
              rmethod, rresp, rloc, rran>>

hostsVars == <<hostsFile, dirFiles, table, tableReverse, lockW, lockR,
               onChanged, upc, ucaller, newTable, newTableRev, udir, nReloads,
               ucalls>>

watchVars == <<phase, watcher, eventsClosed, errorsClosed, onlyWritesChan,
               nChanCloses, owPc, owEvent, wlPc, wlEvent, nEvents, nSent,
               nTaken, nDrained, nWlReloads, roundQueued, roundDrained>>

readerVars == <<rdpc, rdseen>>

queryVars == <<qtarget, qi, qserver, qres, qsent>>

parseVars == <<pdata, pm>>

workerVars == <<clock, nTicks, ipAddrs, ipChan, wpc, wip, wnow, wkIP, wkRes,
                whoisInfo, recAt, lastEnq, dropAt>>

whoisVars == <<workerVars, queryVars, parseVars>>

rwVars == <<rwpc, rwreq, rwresp, rbuf, quiet, stored>>

statsVars == <<revision, enabled, limitIvl, ignored, statsLock, crashed, spc,
               sresp, sreq, nmod, rwVars>>

safeSearchVars == <<safeSearchConf, confLock, sspc, ssreq, ssresp, sslocal,
                    ssmod>>

mobileVars == <<mcreq, mcresp>>

dhcpVars == <<leases, dhcpret, xchg, statics>>

dnsVars == <<dnsSrv, dctx, dnspc, dnsrc>>

dlVars == <<dlLangs, dlMain, dlSent, dlClosed, dlWorker, dlTaken, dlGets,
            dlFiles>>

piVars == <<piCtx, piReq, piResp>>

lateVars == <<dlVars, piVars>>

newVars == <<safeSearchVars, mobileVars, dhcpVars, dnsVars, lateVars>>

oldVars == <<httpVars, hostsVars, watchVars, readerVars, whoisVars,
             statsVars>>

vars == <<httpVars, hostsVars, watchVars, readerVars, whoisVars, statsVars,
          newVars>>

\* What the steps of one part of the program leave alone.
outsideHTTP == <<hostsVars, watchVars, readerVars, whoisVars, statsVars,
                 newVars>>
outsideHosts == <<httpVars, whoisVars, statsVars, newVars>>
outsideWhois == <<httpVars, hostsVars, watchVars, readerVars, statsVars,
                  newVars>>
outsideStats == <<httpVars, hostsVars, watchVars, readerVars, whoisVars,
                  newVars>>
outsideHandlers == <<rwVars, outsideStats>>
outsideRW == <<spc, sresp, sreq, nmod, outsideStats>>
outsideSafeSearch == <<oldVars, mobileVars, dhcpVars, dnsVars, lateVars>>
outsideMobile == <<oldVars, safeSearchVars, dhcpVars, dnsVars, lateVars>>
outsideDHCP == <<oldVars, safeSearchVars, mobileVars, dnsVars, lateVars>>
outsideDNS == <<oldVars, safeSearchVars, mobileVars, dhcpVars, lateVars>>
outsideDownload == <<oldVars, safeSearchVars, mobileVars, dhcpVars, dnsVars,
                     piVars>>
outsidePostInstall == <<oldVars, safeSearchVars, mobileVars, dhcpVars,
                        dnsVars, dlVars>>
outsideWorker == <<queryVars, parseVars, outsideWhois>>
outsideQuery == <<workerVars, parseVars, outsideWhois>>
outsideParse == <<workerVars, queryVars, outsideWhois>>

(***************************************************************************)
(* The HTTP control layer.                                                 *)
(***************************************************************************)
\* ensure with a lock for POST only.
IsMutatingPostOnly(method) ==
    method = MethodPost

IsMutating(method) ==
    method = MethodPost \/ method = MethodPut \/ method = MethodDelete

\* postInstall testing the prefix "/install" instead of "/install.".
NeedsInstallNoDot(first, path) ==
    /\ first
    /\ ~HasPrefix(path, SubSeq(PrefixInstall, 1, Len(PrefixInstall) - 1))
    /\ ~HasPrefix(path, PrefixAssets)

\* The condition under which postInstall redirects to /install.html.
NeedsInstall(first, path) ==
    /\ first
    /\ ~HasPrefix(path, PrefixInstall)
    /\ ~HasPrefix(path, PrefixAssets)

InitHTTP ==
    /\ firstRun \in BOOLEAN
    /\ controlLock = 0
    /\ webHTTPS \in BOOLEAN
    /\ forceHTTPS \in BOOLEAN
    /\ rpc = [r \in Reqs |-> "idle"]
    /\ rpath = [r \in Reqs |-> <<>>]
    /\ rmethod = [r \in Reqs |-> ""]
    /\ rresp = [r \in Reqs |-> StatusNone]
    /\ rloc = [r \in Reqs |-> ""]
    /\ rran = [r \in Reqs |-> {}]

\* The mux dispatches a new request to the route registered for its path.
Serve(r) ==
    /\ rpc[r] = "idle"
    /\ \E path \in Paths : rpath' = [rpath EXCEPT ![r] = path]
    /\ rpc' = [rpc EXCEPT ![r] = "postInstall"]
    /\ UNCHANGED <<firstRun, controlLock, webHTTPS, forceHTTPS, rmethod, rresp,
                   rloc, rran>>
    /\ UNCHANGED outsideHTTP

\* The step after postInstall and handleHTTPSRedirect let a request through:
\* optionalAuth for a route with a method, the handler itself for "".
AfterPostInstall(route) ==
    IF route = "" THEN "handler" ELSE "optionalAuth"

postInstall(r) ==
    /\ rpc[r] = "postInstall"
    /\ IF NeedsInstall(firstRun, rpath[r])
       THEN /\ rresp' = [rresp EXCEPT ![r] = StatusFound]
            /\ rloc' = [rloc EXCEPT ![r] = "/install.html"]
            /\ rpc' = [rpc EXCEPT ![r] = "done"]
       ELSE /\ rpc' = [rpc EXCEPT ![r] = "handleHTTPSRedirect"]
            /\ UNCHANGED <<rresp, rloc>>
    /\ UNCHANGED <<firstRun, controlLock, webHTTPS, forceHTTPS, rpath, rmethod,
                   rran>>
    /\ UNCHANGED outsideHTTP

\* hostOK: r.Host splits, or fails only with "missing port in address".
\* tls: r.TLS # nil.
handleHTTPSRedirect(r) ==
    /\ rpc[r] = "handleHTTPSRedirect"
    /\ rran' = [rran EXCEPT ![r] = @ \cup {"handleHTTPSRedirect"}]
    /\ \E hostOK \in BOOLEAN, tls \in BOOLEAN :
        IF ~webHTTPS
        THEN /\ rpc' = [rpc EXCEPT ![r] = AfterPostInstall(RouteOf(rpath[r]))]
             /\ UNCHANGED <<rresp, rloc>>
        ELSE IF ~hostOK
        THEN /\ rresp' = [rresp EXCEPT ![r] = StatusBadRequest]
             /\ rpc' = [rpc EXCEPT ![r] = "done"]
             /\ UNCHANGED rloc
        ELSE IF ~tls /\ forceHTTPS
        THEN /\ rresp' = [rresp EXCEPT ![r] = StatusTemporaryRedirect]
             /\ rloc' = [rloc EXCEPT ![r] = "https"]
             /\ rpc' = [rpc EXCEPT ![r] = "done"]
        ELSE /\ rpc' = [rpc EXCEPT ![r] = AfterPostInstall(RouteOf(rpath[r]))]
             /\ UNCHANGED <<rresp, rloc>>
    /\ UNCHANGED <<firstRun, controlLock, webHTTPS, forceHTTPS, rpath,
                   rmethod>>
    /\ UNCHANGED outsideHTTP

\* The authentication gate either lets the request through or answers it.
optionalAuth(r) ==
    /\ rpc[r] = "optionalAuth"
    /\ rran' = [rran EXCEPT ![r] = @ \cup {"optionalAuth"}]
    /\ \E authorized \in BOOLEAN :
        IF authorized
        THEN /\ rpc' = [rpc EXCEPT ![r] = "ensure"]
             /\ UNCHANGED rresp
        ELSE /\ rresp' = [rresp EXCEPT ![r] = StatusUnauthorized]
             /\ rpc' = [rpc EXCEPT ![r] = "done"]
    /\ UNCHANGED <<firstRun, controlLock, webHTTPS, forceHTTPS, rpath, rmethod,
                   rloc>>
    /\ UNCHANGED outsideHTTP

\* ensure taking the control lock of a mutating route before it looks at
\* the method of the request.
ensureLockFirst(r) ==
    /\ rpc[r] = "ensure"
    /\ rran' = [rran EXCEPT ![r] = @ \cup {"ensure"}]
    /\ \E method \in Methods :
        /\ rmethod' = [rmethod EXCEPT ![r] = method]
        /\ IF IsMutating(RouteOf(rpath[r]))
           THEN /\ rpc' = [rpc EXCEPT ![r] = "Lock"]
                /\ UNCHANGED rresp
           ELSE IF method # RouteOf(rpath[r])
           THEN /\ rresp' = [rresp EXCEPT ![r] = StatusMethodNotAllowed]
                /\ rpc' = [rpc EXCEPT ![r] = "done"]
           ELSE /\ rpc' = [rpc EXCEPT ![r] = "handler"]
                /\ UNCHANGED rresp
    /\ UNCHANGED <<firstRun, controlLock, webHTTPS, forceHTTPS, rpath, rloc>>
    /\ UNCHANGED outsideHTTP

\* ensure, up to the point where it may block on the control lock.
ensure(r) ==
    /\ rpc[r] = "ensure"
    /\ rran' = [rran EXCEPT ![r] = @ \cup {"ensure"}]
    /\ \E method \in Methods :
        /\ rmethod' = [rmethod EXCEPT ![r] = method]
        /\ IF method # RouteOf(rpath[r])
           THEN /\ rresp' = [rresp EXCEPT ![r] = StatusMethodNotAllowed]
                /\ rpc' = [rpc EXCEPT ![r] = "done"]
           ELSE /\ rpc' = [rpc EXCEPT ![r] =
                        IF IsMutating(RouteOf(rpath[r])) THEN "Lock"
                        ELSE "handler"]
                /\ UNCHANGED rresp
    /\ UNCHANGED <<firstRun, controlLock, webHTTPS, forceHTTPS, rpath, rloc>>
    /\ UNCHANGED outsideHTTP

\* Context.controlLock.Lock() in ensure.
ensureLock(r) ==
    /\ rpc[r] = "Lock"
    /\ controlLock = 0
    /\ controlLock' = r
    /\ rran' = [rran EXCEPT ![r] = @ \cup {"Lock"}]
    /\ rpc' = [rpc EXCEPT ![r] = "handler"]
    /\ UNCHANGED <<firstRun, webHTTPS, forceHTTPS, rpath, rmethod, rresp,
                   rloc>>
    /\ UNCHANGED outsideHTTP

\* The handler body runs while rpc[r] = "handler"; this is its return, with
\* the deferred Context.controlLock.Unlock() of ensure.
handlerReturn(r) ==
    /\ rpc[r] = "handler"
    /\ rran' = [rran EXCEPT ![r] = @ \cup {"handler"}]
    /\ rresp' = [rresp EXCEPT ![r] = StatusOK]
    /\ controlLock' = IF controlLock = r THEN 0 ELSE controlLock
    /\ rpc' = [rpc EXCEPT ![r] = "done"]
    /\ UNCHANGED <<firstRun, webHTTPS, forceHTTPS, rpath, rmethod, rloc>>
    /\ UNCHANGED outsideHTTP

\* Installation completes: the first-run flag goes from true to false.
installDone ==
    /\ firstRun
    /\ firstRun' = FALSE
    /\ UNCHANGED <<controlLock, webHTTPS, forceHTTPS, rpc, rpath, rmethod,
                   rresp, rloc, rran>>
    /\ UNCHANGED outsideHTTP

NextHTTP ==
    \/ \E r \in Reqs : Serve(r)
    \/ \E r \in Reqs : postInstall(r)
    \/ \E r \in Reqs : handleHTTPSRedirect(r)
    \/ \E r \in Reqs : optionalAuth(r)
    \/ \E r \in Reqs : ensure(r)
    \/ \E r \in Reqs : ensureLock(r)
    \/ \E r \in Reqs : handlerReturn(r)
    \/ installDone


(***************************************************************************)
(* The hosts-file container: texts, parsing and the two tables.            *)
(***************************************************************************)
Sp == <<" ">>
Txt192 == <<"1", "9", "2", ".", "1", "6", "8", ".", "1", ".", "1">>
TxtMapped192 == <<":", ":", "f", "f", "f", "f", ":">> \o Txt192
Txt10 == <<"1", "0", ".", "0", ".", "0", ".", "1">>
TxtNoIP == <<"1", "0", ".", "0", ".", "1">>
Host1 == <<"h", "o", "s", "t", "1">>
Host2 == <<"h", "o", "s", "t", "2">>
Hash == <<"#">>
Comment == <<"c", "o", "m", "m", "e", "n", "t">>

\* "192.168.1.1 host1 host2 # comment"
LineA == Txt192 \o Sp \o Host1 \o Sp \o Host2 \o Sp \o Hash \o Sp \o Comment
\* "192.168.1.1 host1"
LineB == Txt192 \o Sp \o Host1
\* "10.0.0.1 host1"
LineC == Txt10 \o Sp \o Host1
\* "  10.0.0.1   host2#comment host1 "
LineD == Sp \o Sp \o Txt10 \o Sp \o Sp \o Sp \o Host2 \o Hash \o Comment
            \o Sp \o Host1 \o Sp
\* "10.0.1 host1"
LineE == TxtNoIP \o Sp \o Host1
\* "::ffff:192.168.1.1 host2"
LineF == TxtMapped192 \o Sp \o Host2
\* "10.0.0.1 #host1"
LineG == Txt10 \o Sp \o Hash \o Host1
\* "host2"
LineH == Host2

Lines == {LineA, LineB, LineC, LineD, LineE, LineF, LineG, LineH}

\* A file that opens, with its lines, and a file that does not open.
File(lines) == [opens |-> TRUE, lines |-> lines]
NoFile == [opens |-> FALSE, lines |-> <<>>]

RECURSIVE SeqsUpTo(_, _)
SeqsUpTo(S, n) ==
    IF n = 0 THEN {<<>>}
    ELSE LET shorter == SeqsUpTo(S, n - 1)
         IN shorter \cup {Append(q, x) : q \in shorter, x \in S}

Files == {File(lines) : lines \in SeqsUpTo(Lines, MaxLines)} \cup {NoFile}
\* The files of the hosts directories.
DirFiles == {File(<<LineB>>), File(<<LineD, LineC>>), NoFile}

\* net.IP: the 16-byte form net.ParseIP returns, nil as the empty sequence.
IPv4(a, b, c, d) == <<0, 0, 0, 0, 0, 0, 0, 0, 0, 0, 255, 255, a, b, c, d>>
NilIP == <<>>

\* net.ParseIP on the texts of the model.
ParseIP(text) ==
    CASE text = Txt192 -> IPv4(192, 168, 1, 1)
      [] text = TxtMapped192 -> IPv4(192, 168, 1, 1)
      [] text = Txt10 -> IPv4(10, 0, 0, 1)
      [] OTHER -> NilIP

\* net.IP.String on the addresses of the model.
IPString(ip) ==
    CASE ip = IPv4(192, 168, 1, 1) -> Txt192
      [] ip = IPv4(10, 0, 0, 1) -> Txt10
      [] OTHER -> <<"<", "n", "i", "l", ">">>

\* net.IP.Equal on 16-byte addresses.
IPEqual(ip1, ip2) == ip1 = ip2

IsSpace(c) == c \in {" ", "\t", "\r", "\n"}

RECURSIVE FieldsFrom(_, _, _, _)
FieldsFrom(s, i, cur, acc) ==
    IF i > Len(s)
    THEN IF cur = <<>> THEN acc ELSE Append(acc, cur)
    ELSE IF IsSpace(s[i])
    THEN FieldsFrom(s, i + 1, <<>>, IF cur = <<>> THEN acc ELSE Append(acc, cur))
    ELSE FieldsFrom(s, i + 1, Append(cur, s[i]), acc)

\* strings.Fields
Fields(s) == FieldsFrom(s, 1, <<>>, <<>>)

RECURSIVE TrimLeft(_)
TrimLeft(s) ==
    IF s # <<>> /\ IsSpace(Head(s)) THEN TrimLeft(Tail(s)) ELSE s

RECURSIVE TrimRight(_)
TrimRight(s) ==
    IF s # <<>> /\ IsSpace(s[Len(s)])
    THEN TrimRight(SubSeq(s, 1, Len(s) - 1)) ELSE s

\* strings.TrimSpace
TrimSpace(s) == TrimRight(TrimLeft(s))

\* strings.IndexByte: the 0-based index of the first c in s, or -1.
IndexByte(s, c) ==
    IF \E i \in 1..Len(s) : s[i] = c
    THEN (CHOOSE i \in 1..Len(s) :
            s[i] = c /\ \A j \in 1..(i - 1) : s[j] # c) - 1
    ELSE -1

RECURSIVE parseHostsLineFrom(_, _)
parseHostsLineFrom(fields, hosts) ==
    IF fields = <<>> THEN hosts
    ELSE LET f == Head(fields)
             hashIdx == IndexByte(f, "#")
         IN IF hashIdx = 0 THEN hosts
            ELSE IF hashIdx > 0 THEN Append(hosts, SubSeq(f, 1, hashIdx))
            ELSE parseHostsLineFrom(Tail(fields), Append(hosts, f))

parseHostsLine(fields) == parseHostsLineFrom(fields, <<>>)

\* A map of Go as a function; make(map) is the function of empty domain.
EmptyMap == <<>>

\* The map m with m[key] = value.
MapSet(m, key, value) ==
    [k \in DOMAIN m \cup {key} |-> IF k = key THEN value ELSE m[k]]

\* x occurs in the sequence q (IPEqual and = agree on the model's values).
Contains(q, x) == \E i \in 1..Len(q) : q[i] = x

updateTable(tbl, host, ipAddr) ==
    IF host \in DOMAIN tbl
    THEN LET ips == tbl[host]
             \* ok after the loop: false iff an equal IP was found
             ok == ~(\E i \in 1..Len(ips) : IPEqual(ips[i], ipAddr))
         IN IF ~ok THEN MapSet(tbl, host, Append(ips, ipAddr)) ELSE tbl
    ELSE MapSet(tbl, host, <<ipAddr>>)

\* updateTableRev that appends without looking for the host.
updateTableRevNoDedup(tableRev, newHost, ipAddr) ==
    LET ipStr == IPString(ipAddr)
    IN IF ipStr \notin DOMAIN tableRev
       THEN MapSet(tableRev, ipStr, <<newHost>>)
       ELSE MapSet(tableRev, ipStr, Append(tableRev[ipStr], newHost))

updateTableRev(tableRev, newHost, ipAddr) ==
    LET ipStr == IPString(ipAddr)
    IN IF ipStr \notin DOMAIN tableRev
       THEN MapSet(tableRev, ipStr, <<newHost>>)
       ELSE IF Contains(tableRev[ipStr], newHost)
       THEN tableRev
       ELSE MapSet(tableRev, ipStr, Append(tableRev[ipStr], newHost))

\* The pair of maps a reload fills.
Tables(fwd, rev) == [fwd |-> fwd, rev |-> rev]

RECURSIVE loadHosts(_, _, _)
loadHosts(tabs, hosts, ip) ==
    IF hosts = <<>> THEN tabs
    ELSE loadHosts(Tables(updateTable(tabs.fwd, Head(hosts), ip),
                          updateTableRev(tabs.rev, Head(hosts), ip)),
                   Tail(hosts), ip)

\* The body of the scanner loop of load for one line.
loadLine(tabs, line) ==
    LET fields == Fields(TrimSpace(line))
    IN IF Len(fields) < 2 THEN tabs
       ELSE LET ip == ParseIP(fields[1])
            IN IF ip = NilIP THEN tabs
               ELSE loadHosts(tabs, parseHostsLine(Tail(fields)), ip)

RECURSIVE loadLines(_, _)
loadLines(tabs, lines) ==
    IF lines = <<>> THEN tabs
    ELSE loadLines(loadLine(tabs, Head(lines)), Tail(lines))

\* load: a file that does not open leaves the maps as they are.
load(tabs, file) ==
    IF ~file.opens THEN tabs ELSE loadLines(tabs, file.lines)

(***************************************************************************)
(* updateHosts, step by step.                                              *)
(***************************************************************************)
\* A map together with the number of the updateHosts call that made it.
MapOf(gen, m) == [gen |-> gen, m |-> m]

\* updateHosts: make the two maps and load the main hosts file into them.
updateHostsLoad ==
    /\ upc = "load"
    /\ LET tabs == load(Tables(EmptyMap, EmptyMap), hostsFile)
       IN /\ newTable' = MapOf(nReloads, tabs.fwd)
          /\ newTableRev' = MapOf(nReloads, tabs.rev)
    /\ udir' = 1
    /\ upc' = "loadDirs"
    /\ UNCHANGED <<hostsFile, dirFiles, table, tableReverse, lockW, lockR,
                   onChanged, ucaller, nReloads, ucalls>>
    /\ UNCHANGED <<watchVars, readerVars>>
    /\ UNCHANGED outsideHosts

\* updateHosts: load the next file of the hosts directories, if any.
updateHostsLoadDir ==
    /\ upc = "loadDirs"
    /\ IF udir <= Len(dirFiles)
       THEN LET tabs == load(Tables(newTable.m, newTableRev.m), dirFiles[udir])
            IN /\ newTable' = MapOf(newTable.gen, tabs.fwd)
               /\ newTableRev' = MapOf(newTableRev.gen, tabs.rev)
               /\ udir' = udir + 1
               /\ upc' = upc
       ELSE /\ upc' = "Lock"
            /\ UNCHANGED <<newTable, newTableRev, udir>>
    /\ UNCHANGED <<hostsFile, dirFiles, table, tableReverse, lockW, lockR,
                   onChanged, ucaller, nReloads, ucalls>>
    /\ UNCHANGED <<watchVars, readerVars>>
    /\ UNCHANGED outsideHosts

\* updateHosts that swaps the tables without taking the lock.
updateHostsNoLock ==
    /\ upc = "Lock"
    /\ upc' = "setTable"
    /\ UNCHANGED <<hostsFile, dirFiles, table, tableReverse, lockW, lockR,
                   onChanged, ucaller, newTable, newTableRev, udir, nReloads,
                   ucalls>>
    /\ UNCHANGED <<watchVars, readerVars>>
    /\ UNCHANGED outsideHosts

\* ehc.lock.Lock()
updateHostsLock ==
    /\ upc = "Lock"
    /\ ~lockW
    /\ lockR = 0
    /\ lockW' = TRUE
    /\ upc' = "setTable"
    /\ UNCHANGED <<hostsFile, dirFiles, table, tableReverse, lockR, onChanged,
                   ucaller, newTable, newTableRev, udir, nReloads, ucalls>>
    /\ UNCHANGED <<watchVars, readerVars>>
    /\ UNCHANGED outsideHosts

\* ehc.table = table
updateHostsSetTable ==
    /\ upc = "setTable"
    /\ table' = newTable
    /\ upc' = "setTableReverse"
    /\ UNCHANGED <<hostsFile, dirFiles, tableReverse, lockW, lockR, onChanged,
                   ucaller, newTable, newTableRev, udir, nReloads, ucalls>>
    /\ UNCHANGED <<watchVars, readerVars>>
    /\ UNCHANGED outsideHosts

\* ehc.tableReverse = tableRev
updateHostsSetTableReverse ==
    /\ upc = "setTableReverse"
    /\ tableReverse' = newTableRev
    /\ upc' = "Unlock"
    /\ UNCHANGED <<hostsFile, dirFiles, table, lockW, lockR, onChanged,
                   ucaller, newTable, newTableRev, udir, nReloads, ucalls>>
    /\ UNCHANGED <<watchVars, readerVars>>
    /\ UNCHANGED outsideHosts

\* updateHosts that calls notify before the deferred Unlock.
updateHostsNotifyLocked ==
    /\ upc = "Unlock"
    /\ upc' = "notify"
    /\ UNCHANGED <<hostsFile, dirFiles, table, tableReverse, lockW, lockR,
                   onChanged, ucaller, newTable, newTableRev, udir, nReloads,
                   ucalls>>
    /\ UNCHANGED <<watchVars, readerVars>>
    /\ UNCHANGED outsideHosts

\* the deferred ehc.lock.Unlock()
updateHostsUnlock ==
    /\ upc = "Unlock"
    /\ lockW' = FALSE
    /\ upc' = "notify"
    /\ UNCHANGED <<hostsFile, dirFiles, table, tableReverse, lockR, onChanged,
                   ucaller, newTable, newTableRev, udir, nReloads, ucalls>>
    /\ UNCHANGED <<watchVars, readerVars>>
    /\ UNCHANGED outsideHosts

\* notify: calls ehc.onChanged unless it is nil.
notify ==
    /\ upc = "notify"
    /\ IF onChanged
       THEN /\ ucalls' = ucalls + 1
            /\ upc' = "onChanged"
       ELSE /\ upc' = "return"
            /\ UNCHANGED ucalls
    /\ UNCHANGED <<hostsFile, dirFiles, table, tableReverse, lockW, lockR,
                   onChanged, ucaller, newTable, newTableRev, udir, nReloads>>
    /\ UNCHANGED <<watchVars, readerVars>>
    /\ UNCHANGED outsideHosts

\* The callback reads the tables as Process does, under the read lock,
\* and returns.
onChangedReturn ==
    /\ upc = "onChanged"
    /\ ~lockW
    /\ upc' = "return"
    /\ UNCHANGED <<hostsFile, dirFiles, table, tableReverse, lockW, lockR,
                   onChanged, ucaller, newTable, newTableRev, udir, nReloads,
                   ucalls>>
    /\ UNCHANGED <<watchVars, readerVars>>
    /\ UNCHANGED outsideHosts

(***************************************************************************)
(* The WHOIS module: addresses, callers, and the module after initWhois.   *)
(***************************************************************************)
\* Client addresses.
WhoisIPs == {IPv4(192, 168, 1, 1), IPv4(10, 0, 0, 1)}

\* The tasks that call Begin.
Callers == {"handler", "handler2"}

NoIP == NilIP
NoTime == -1

\* initWhois: an empty cache, an empty channel, the worker waiting.
ParkWhois ==
    /\ clock = 0
    /\ nTicks = 0
    /\ ipAddrs = <<>>
    /\ ipChan = <<>>
    /\ wpc = [c \in Callers |-> "idle"]
    /\ wip = [c \in Callers |-> NoIP]
    /\ wnow = [c \in Callers |-> 0]
    /\ wkIP = NoIP
    /\ wkRes = [kind |-> "none", resp |-> <<>>, err |-> ""]
    /\ whoisInfo = <<>>
    /\ qtarget = <<>>
    /\ qi = 0
    /\ qserver = <<>>
    /\ qres = [kind |-> "none", resp |-> <<>>, err |-> ""]
    /\ qsent = <<>>
    /\ pdata = <<>>
    /\ pm = <<>>
    /\ recAt = [ip \in WhoisIPs |-> NoTime]
    /\ lastEnq = [ip \in WhoisIPs |-> NoTime]
    /\ dropAt = [ip \in WhoisIPs |-> NoTime]

\* No stats handler is followed statement by statement.
ParkRW ==
    /\ rwpc = [t \in {"put", "post", "get"} |-> "idle"]
    /\ rwreq = [t \in {"put", "post", "get"} |->
                  [kind |-> "", decodes |-> FALSE, enabled |-> "NBNull",
                   interval |-> [hh |-> 0, hms |-> 0], ignored |-> <<>>,
                   days |-> 0]]
    /\ rwresp = [code |-> 0, body |-> ""]
    /\ rbuf = <<>>
    /\ quiet = [enabled |-> TRUE, limitIvl |-> [hh |-> 48, ns |-> 0],
                ignored |-> {}]
    /\ stored = {}

\* The statistics module after New, with no request.
ParkStats ==
    /\ revision = "part_001"
    /\ enabled = TRUE
    /\ limitIvl = [hh |-> 48, ns |-> 0]
    /\ ignored = {}
    /\ statsLock = "free"
    /\ crashed = FALSE
    /\ spc = [t \in {"writer", "reader"} |-> "idle"]
    /\ sresp = [t \in {"writer", "reader"} |-> [code |-> 0, body |-> ""]]
    /\ sreq = [kind |-> "", decodes |-> FALSE, enabled |-> "NBNull",
               interval |-> [hh |-> 0, hms |-> 0], ignored |-> <<>>,
               days |-> 0]
    /\ nmod = 0
    /\ ParkRW

\* The safe-search settings as New leaves them, with no request.
ParkSafeSearch ==
    /\ safeSearchConf = [Enabled |-> FALSE, Bing |-> TRUE, YouTube |-> TRUE]
    /\ confLock = [w |-> "", r |-> {}]
    /\ sspc = [t \in {"a", "b"} |-> "idle"]
    /\ ssreq = [t \in {"a", "b"} |-> [op |-> "", decodes |-> FALSE,
                 body |-> [Enabled |-> FALSE, Bing |-> FALSE,
                           YouTube |-> FALSE]]]
    /\ ssresp = [t \in {"a", "b"} |-> [code |-> 0, body |-> ""]]
    /\ sslocal = [t \in {"a", "b"} |-> [Enabled |-> FALSE, Bing |-> FALSE,
                                        YouTube |-> FALSE]]
    /\ ssmod = [t \in {"a", "b"} |-> 0]

\* No request for a mobile configuration.
ParkMobile ==
    /\ mcreq = [dnsp |-> "", host |-> <<>>, clientID |-> <<>>]
    /\ mcresp = [code |-> 0, type |-> "", disposition |-> "",
                 body |-> [message |-> ""]]

\* A v4 server with no lease and no message.
ParkDHCP ==
    /\ leases = <<>>
    /\ dhcpret = [op |-> "", mac |-> "", ip |-> 0, err |-> FALSE,
                  code |-> 0, type |-> "", yiaddr |-> 0, had |-> 0]
    /\ xchg = [m \in {"aa", "11"} |->
                 [stage |-> "init", offer |-> 0, alone |-> FALSE]]
    /\ statics = {}

\* A DNS server with no query in its pipeline.
ParkDNS ==
    /\ dnsSrv = [HandleDDR |-> FALSE, ServerName |-> <<>>, portDoH |-> 0,
                 portDoT |-> 0, portDoQ |-> 0, localDomainSuffix |-> "",
                 tableHostToIP |-> {}, UsePrivateRDNS |-> FALSE,
                 localResolvers |-> {}, upstream |-> {}]
    /\ dctx = [req |-> [Name |-> <<>>, Qtype |-> ""], addr |-> <<>>,
               isLocalClient |-> FALSE, unreversedReqIP |-> <<>>,
               res |-> [set |-> FALSE, rcode |-> "", q |-> <<>>,
                        answer |-> <<>>]]
    /\ dnspc = "done"
    /\ dnsrc = ""

\* The translations script before it is started.
ParkDownload ==
    /\ dlLangs = {}
    /\ dlMain = "exited"
    /\ dlSent = {}
    /\ dlClosed = TRUE
    /\ dlWorker = <<>>
    /\ dlTaken = <<>>
    /\ dlGets = {}
    /\ dlFiles = {}

\* No request at postInstall on its own.
ParkPostInstall ==
    /\ piCtx = [firstRun |-> FALSE, httpsServer |-> FALSE,
                forceHTTPS |-> FALSE, PortHTTPS |-> 0]
    /\ piReq = [Host |-> <<>>, TLS |-> FALSE, Path |-> <<>>, RawQuery |-> <<>>]
    /\ piResp = [code |-> 0, Location |-> <<>>, handler |-> FALSE]

ParkLate == ParkDownload /\ ParkPostInstall

\* The parts of the program modelled further down, at rest.
ParkNew == ParkSafeSearch /\ ParkMobile /\ ParkDHCP /\ ParkDNS /\ ParkLate

\* The HTTP layer at rest.
ParkHTTP ==
    /\ firstRun = FALSE
    /\ controlLock = 0
    /\ webHTTPS = FALSE
    /\ forceHTTPS = FALSE
    /\ rpc = [r \in Reqs |-> "idle"]
    /\ rpath = [r \in Reqs |-> <<>>]
    /\ rmethod = [r \in Reqs |-> ""]
    /\ rresp = [r \in Reqs |-> StatusNone]
    /\ rloc = [r \in Reqs |-> ""]
    /\ rran = [r \in Reqs |-> {}]

Readers == 1..NumReaders

\* No Start yet, no goroutine, no event.
ParkWatch ==
    /\ phase = "inited"
    /\ eventsClosed = FALSE
    /\ errorsClosed = FALSE
    /\ onlyWritesChan = <<>>
    /\ nChanCloses = 0
    /\ owPc = "off"
    /\ owEvent = ""
    /\ wlPc = "off"
    /\ wlEvent = ""
    /\ nEvents = 0
    /\ nSent = 0
    /\ nTaken = 0
    /\ nDrained = 0
    /\ nWlReloads = 0
    /\ roundQueued = 0
    /\ roundDrained = 0

\* The hosts container at rest.
ParkHosts ==
    /\ hostsFile = NoFile
    /\ dirFiles = <<>>
    /\ watcher = "nil"
    /\ table = MapOf(0, EmptyMap)
    /\ tableReverse = MapOf(0, EmptyMap)
    /\ lockW = FALSE
    /\ lockR = 0
    /\ onChanged = FALSE
    /\ upc = "idle"
    /\ ucaller = ""
    /\ newTable = MapOf(0, EmptyMap)
    /\ newTableRev = MapOf(0, EmptyMap)
    /\ udir = 1
    /\ nReloads = 0
    /\ ucalls = 0
    /\ ParkWatch
    /\ rdpc = [r \in Readers |-> "idle"]
    /\ rdseen = [r \in Readers |-> 0]

\* Init, as it calls updateHosts for the first time: ehc.table is the map
\* made by Init, ehc.tableReverse is nil, the files are any files.
InitLoad ==
    /\ ParkHTTP
    /\ ParkWhois
    /\ ParkStats
    /\ ParkNew
    /\ hostsFile \in Files
    /\ dirFiles \in SeqsUpTo(DirFiles, MaxDirFiles)
    /\ table = MapOf(0, EmptyMap)
    /\ tableReverse = MapOf(0, EmptyMap)
    /\ lockW = FALSE
    /\ lockR = 0
    /\ onChanged \in BOOLEAN
    /\ upc = "load"
    /\ ucaller = "Init"
    /\ newTable = MapOf(0, EmptyMap)
    /\ newTableRev = MapOf(0, EmptyMap)
    /\ udir = 1
    /\ nReloads = 1
    /\ ucalls = 0
    /\ watcher = "nil"
    /\ ParkWatch
    /\ rdpc = [r \in Readers |-> "idle"]
    /\ rdseen = [r \in Readers |-> 0]

NextLoad ==
    \/ updateHostsLoad
    \/ updateHostsLoadDir
    \/ updateHostsLock
    \/ updateHostsSetTable
    \/ updateHostsSetTableReverse
    \/ updateHostsUnlock
    \/ notify
    \/ onChangedReturn

SpecLoad == InitLoad /\ [][NextLoad]_vars


(***************************************************************************)
(* Start, Close, the two watcher goroutines and the readers.               *)
(***************************************************************************)
OpWrite == "Write"
OpChmod == "Chmod"
EventOps == {OpWrite, OpChmod}

\* capacity of ehc.onlyWritesChan
OnlyWritesCap == 2

\* The contents the watched hosts file takes.
WatchedFiles == {File(<<LineA, LineB>>), File(<<LineC>>)}

RECURSIVE loadFiles(_, _)
loadFiles(tabs, files) ==
    IF files = <<>> THEN tabs
    ELSE loadFiles(load(tabs, Head(files)), Tail(files))

\* The maps one whole updateHosts call builds from the files.
loadAll(main, dirs) == loadFiles(Tables(EmptyMap, EmptyMap), <<main>> \o dirs)

\* The call of updateHosts by caller.
CallUpdateHosts(caller) ==
    /\ upc' = "load"
    /\ ucaller' = caller
    /\ nReloads' = nReloads + 1
    /\ ucalls' = 0

\* SetOnChanged registers the callback.
SetOnChanged ==
    /\ ~onChanged
    /\ onChanged' = TRUE
    /\ UNCHANGED <<hostsFile, dirFiles, table, tableReverse, lockW, lockR,
                   upc, ucaller, newTable, newTableRev, udir, nReloads, ucalls>>
    /\ UNCHANGED <<watchVars, readerVars>>
    /\ UNCHANGED outsideHosts

\* Start, up to its call of updateHosts.
Start ==
    /\ phase = "inited"
    /\ upc = "idle"
    /\ phase' = "starting"
    /\ CallUpdateHosts("Start")
    /\ UNCHANGED <<hostsFile, dirFiles, table, tableReverse, lockW, lockR,
                   onChanged, newTable, newTableRev, udir>>
    /\ UNCHANGED <<watcher, eventsClosed, errorsClosed, onlyWritesChan,
                   nChanCloses, owPc, owEvent, wlPc, wlEvent, nEvents, nSent,
                   nTaken, nDrained, nWlReloads, roundQueued, roundDrained>>
    /\ UNCHANGED readerVars
    /\ UNCHANGED outsideHosts

\* Start, after updateHosts: with a watcher it starts watcherLoop, which
\* starts onlyWrites, and adds the paths to the watcher.
StartWatch ==
    /\ phase = "starting"
    /\ upc = "return"
    /\ upc' = "idle"
    /\ phase' = "started"
    /\ IF watcher # "nil"
       THEN wlPc' = "select" /\ owPc' = "recv"
       ELSE UNCHANGED <<wlPc, owPc>>
    /\ UNCHANGED <<hostsFile, dirFiles, table, tableReverse, lockW, lockR,
                   onChanged, ucaller, newTable, newTableRev, udir, nReloads,
                   ucalls>>
    /\ UNCHANGED <<watcher, eventsClosed, errorsClosed, onlyWritesChan,
                   nChanCloses, owEvent, wlEvent, nEvents, nSent, nTaken,
                   nDrained, nWlReloads, roundQueued, roundDrained>>
    /\ UNCHANGED readerVars
    /\ UNCHANGED outsideHosts

\* Close closes the watcher; it leaves onlyWritesChan alone.
Close ==
    /\ watcher = "open"
    /\ watcher' = "closed"
    /\ UNCHANGED hostsVars
    /\ UNCHANGED <<phase, eventsClosed, errorsClosed, onlyWritesChan,
                   nChanCloses, owPc, owEvent, wlPc, wlEvent, nEvents, nSent,
                   nTaken, nDrained, nWlReloads, roundQueued, roundDrained>>
    /\ UNCHANGED readerVars
    /\ UNCHANGED outsideHosts

\* The closed watcher closes its Events channel.
watcherCloseEvents ==
    /\ watcher = "closed"
    /\ ~eventsClosed
    /\ eventsClosed' = TRUE
    /\ UNCHANGED hostsVars
    /\ UNCHANGED <<phase, watcher, errorsClosed, onlyWritesChan, nChanCloses,
                   owPc, owEvent, wlPc, wlEvent, nEvents, nSent, nTaken,
                   nDrained, nWlReloads, roundQueued, roundDrained>>
    /\ UNCHANGED readerVars
    /\ UNCHANGED outsideHosts

\* The closed watcher closes its Errors channel.
watcherCloseErrors ==
    /\ watcher = "closed"
    /\ ~errorsClosed
    /\ errorsClosed' = TRUE
    /\ UNCHANGED hostsVars
    /\ UNCHANGED <<phase, watcher, eventsClosed, onlyWritesChan, nChanCloses,
                   owPc, owEvent, wlPc, wlEvent, nEvents, nSent, nTaken,
                   nDrained, nWlReloads, roundQueued, roundDrained>>
    /\ UNCHANGED readerVars
    /\ UNCHANGED outsideHosts

\* onlyWrites receives an event from watcher.Events (unbuffered): a write
\* of the hosts file, or another operation on it.  It keeps a write event
\* to send it on, and drops any other.
onlyWritesRecv ==
    /\ owPc = "recv"
    /\ phase = "started"
    /\ watcher = "open"
    /\ \E op \in EventOps :
        IF op = OpWrite
        THEN /\ nEvents < MaxEvents
             /\ nEvents' = nEvents + 1
             /\ \E file \in WatchedFiles : hostsFile' = file
             /\ owEvent' = op
             /\ owPc' = "send"
        ELSE UNCHANGED <<nEvents, hostsFile, owEvent, owPc>>
    /\ UNCHANGED <<dirFiles, table, tableReverse, lockW, lockR, onChanged, upc,
                   ucaller, newTable, newTableRev, udir, nReloads, ucalls>>
    /\ UNCHANGED <<phase, watcher, eventsClosed, errorsClosed, onlyWritesChan,
                   nChanCloses, wlPc, wlEvent, nSent, nTaken, nDrained,
                   nWlReloads, roundQueued, roundDrained>>
    /\ UNCHANGED readerVars
    /\ UNCHANGED outsideHosts

\* ehc.onlyWritesChan <- event, which blocks while the buffer is full.
onlyWritesSend ==
    /\ owPc = "send"
    /\ Len(onlyWritesChan) < OnlyWritesCap
    /\ onlyWritesChan' = Append(onlyWritesChan, owEvent)
    /\ nSent' = nSent + 1
    /\ owEvent' = ""
    /\ owPc' = "recv"
    /\ UNCHANGED hostsVars
    /\ UNCHANGED <<phase, watcher, eventsClosed, errorsClosed, nChanCloses,
                   wlPc, wlEvent, nEvents, nTaken, nDrained, nWlReloads,
                   roundQueued, roundDrained>>
    /\ UNCHANGED readerVars
    /\ UNCHANGED outsideHosts

\* The range over watcher.Events ends when it is closed; onlyWrites then
\* closes ehc.onlyWritesChan and returns.
onlyWritesClose ==
    /\ owPc = "recv"
    /\ eventsClosed
    /\ nChanCloses' = nChanCloses + 1
    /\ owPc' = "done"
    /\ UNCHANGED hostsVars
    /\ UNCHANGED <<phase, watcher, eventsClosed, errorsClosed, onlyWritesChan,
                   owEvent, wlPc, wlEvent, nEvents, nSent, nTaken, nDrained,
                   nWlReloads, roundQueued, roundDrained>>
    /\ UNCHANGED readerVars
    /\ UNCHANGED outsideHosts

\* watcherLoop that receives an event and selects again, with no reload.
watcherLoopRecvOnly ==
    /\ wlPc = "select"
    /\ onlyWritesChan # <<>>
    /\ wlEvent' = Head(onlyWritesChan)
    /\ onlyWritesChan' = Tail(onlyWritesChan)
    /\ nTaken' = nTaken + 1
    /\ UNCHANGED <<roundQueued, roundDrained, wlPc>>
    /\ UNCHANGED hostsVars
    /\ UNCHANGED <<phase, watcher, eventsClosed, errorsClosed, nChanCloses,
                   owPc, owEvent, nEvents, nSent, nDrained, nWlReloads>>
    /\ UNCHANGED readerVars
    /\ UNCHANGED outsideHosts

\* watcherLoop, outer select: an event is received from onlyWritesChan.
watcherLoopRecv ==
    /\ wlPc = "select"
    /\ onlyWritesChan # <<>>
    /\ wlEvent' = Head(onlyWritesChan)
    /\ onlyWritesChan' = Tail(onlyWritesChan)
    /\ nTaken' = nTaken + 1
    /\ roundQueued' = Len(onlyWritesChan) - 1
    /\ roundDrained' = 0
    /\ wlPc' = "drain"
    /\ UNCHANGED hostsVars
    /\ UNCHANGED <<phase, watcher, eventsClosed, errorsClosed, nChanCloses,
                   owPc, owEvent, nEvents, nSent, nDrained, nWlReloads>>
    /\ UNCHANGED readerVars
    /\ UNCHANGED outsideHosts

\* watcherLoop, outer select: onlyWritesChan or watcher.Errors is closed,
\* and watcherLoop returns.  (An error received from watcher.Errors is
\* logged and changes nothing.)
watcherLoopReturn ==
    /\ wlPc = "select"
    /\ \/ onlyWritesChan = <<>> /\ nChanCloses > 0
       \/ errorsClosed
    /\ wlPc' = "done"
    /\ UNCHANGED hostsVars
    /\ UNCHANGED <<phase, watcher, eventsClosed, errorsClosed, onlyWritesChan,
                   nChanCloses, owPc, owEvent, wlEvent, nEvents, nSent, nTaken,
                   nDrained, nWlReloads, roundQueued, roundDrained>>
    /\ UNCHANGED readerVars
    /\ UNCHANGED outsideHosts

\* watcherLoop without the inner loop.
RepeatsNever(ch) == FALSE

\* The inner select of watcherLoop repeats while it receives an event.
Repeats(ch) == ch # <<>>

\* watcherLoop, inner loop: one more queued event is received and dropped.
watcherLoopDrain ==
    /\ wlPc = "drain"
    /\ Repeats(onlyWritesChan)
    /\ onlyWritesChan' = Tail(onlyWritesChan)
    /\ nDrained' = nDrained + 1
    /\ roundDrained' = roundDrained + 1
    /\ UNCHANGED hostsVars
    /\ UNCHANGED <<phase, watcher, eventsClosed, errorsClosed, nChanCloses,
                   owPc, owEvent, wlPc, wlEvent, nEvents, nSent, nTaken,
                   nWlReloads, roundQueued>>
    /\ UNCHANGED readerVars
    /\ UNCHANGED outsideHosts

\* watcherLoop, inner loop: nothing is queued (or the channel is closed);
\* for a write event updateHosts is called.
watcherLoopUpdate ==
    /\ wlPc = "drain"
    /\ ~Repeats(onlyWritesChan)
    /\ IF wlEvent = OpWrite
       THEN /\ wlPc' = "updateHosts"
            /\ nWlReloads' = nWlReloads + 1
            /\ CallUpdateHosts("watcherLoop")
       ELSE /\ wlPc' = "select"
            /\ UNCHANGED <<nWlReloads, upc, ucaller, nReloads, ucalls>>
    /\ UNCHANGED <<hostsFile, dirFiles, table, tableReverse, lockW, lockR,
                   onChanged, newTable, newTableRev, udir>>
    /\ UNCHANGED <<phase, watcher, eventsClosed, errorsClosed, onlyWritesChan,
                   nChanCloses, owPc, owEvent, wlEvent, nEvents, nSent, nTaken,
                   nDrained, roundQueued, roundDrained>>
    /\ UNCHANGED readerVars
    /\ UNCHANGED outsideHosts

\* updateHosts returns to watcherLoop, which selects again.
watcherLoopNext ==
    /\ wlPc = "updateHosts"
    /\ upc = "return"
    /\ upc' = "idle"
    /\ wlPc' = "select"
    /\ UNCHANGED <<hostsFile, dirFiles, table, tableReverse, lockW, lockR,
                   onChanged, ucaller, newTable, newTableRev, udir, nReloads,
                   ucalls>>
    /\ UNCHANGED <<phase, watcher, eventsClosed, errorsClosed, onlyWritesChan,
                   nChanCloses, owPc, owEvent, wlEvent, nEvents, nSent, nTaken,
                   nDrained, nWlReloads, roundQueued, roundDrained>>
    /\ UNCHANGED readerVars
    /\ UNCHANGED outsideHosts

\* The entry points that read the tables.
ReadOps == {"Process", "ProcessReverse", "List"}

\* Process of a PTR query, and ProcessReverse of another query or of an
\* address UnreverseAddr does not parse, return nil before the lock.
\* asksPTR: the query type is dns.TypePTR; addrOK: the address parses.
ReturnsEarly(op, asksPTR, addrOK) ==
    \/ op = "Process" /\ asksPTR
    \/ op = "ProcessReverse" /\ (~asksPTR \/ ~addrOK)

\* A reader calls Process, ProcessReverse or List, up to and with
\* ehc.lock.RLock(), which waits while the writer holds the lock or waits
\* for it.  From here to RUnlock the reader reads ehc.table (Process) or
\* ehc.tableReverse (ProcessReverse, List): rdseen is the reload whose map
\* it finds there.
readerRLock(r) ==
    /\ rdpc[r] = "idle"
    /\ \E op \in ReadOps, asksPTR \in BOOLEAN, addrOK \in BOOLEAN :
        IF ReturnsEarly(op, asksPTR, addrOK)
        THEN UNCHANGED <<rdpc, rdseen, lockR>>
        ELSE /\ ~lockW
             /\ upc # "Lock"
             /\ lockR' = lockR + 1
             /\ rdpc' = [rdpc EXCEPT ![r] = op]
             /\ rdseen' = [rdseen EXCEPT ![r] =
                    IF op = "Process" THEN table.gen ELSE tableReverse.gen]
    /\ UNCHANGED <<hostsFile, dirFiles, table, tableReverse, lockW, onChanged,
                   upc, ucaller, newTable, newTableRev, udir, nReloads, ucalls>>
    /\ UNCHANGED watchVars
    /\ UNCHANGED outsideHosts

\* the deferred ehc.lock.RUnlock(), and the return
readerRUnlock(r) ==
    /\ rdpc[r] \in ReadOps
    /\ lockR' = lockR - 1
    /\ rdpc' = [rdpc EXCEPT ![r] = "idle"]
    /\ rdseen' = [rdseen EXCEPT ![r] = 0]
    /\ UNCHANGED <<hostsFile, dirFiles, table, tableReverse, lockW, onChanged,
                   upc, ucaller, newTable, newTableRev, udir, nReloads, ucalls>>
    /\ UNCHANGED watchVars
    /\ UNCHANGED outsideHosts

\* The container after Init: the tables of the first updateHosts call, a
\* watcher unless fsnotify.NewWatcher failed, no goroutine yet.
InitHosts ==
    /\ ParkHTTP
    /\ ParkWhois
    /\ ParkStats
    /\ ParkNew
    /\ hostsFile \in WatchedFiles
    /\ dirFiles = <<File(<<LineD>>)>>
    /\ table = MapOf(1, loadAll(hostsFile, dirFiles).fwd)
    /\ tableReverse = MapOf(1, loadAll(hostsFile, dirFiles).rev)
    /\ lockW = FALSE
    /\ lockR = 0
    /\ onChanged = FALSE
    /\ upc = "idle"
    /\ ucaller = "Init"
    /\ newTable = table
    /\ newTableRev = tableReverse
    /\ udir = 1
    /\ nReloads = 1
    /\ ucalls = 0
    /\ watcher \in {"open", "nil"}
    /\ ParkWatch
    /\ rdpc = [r \in Readers |-> "idle"]
    /\ rdseen = [r \in Readers |-> 0]

NextHosts ==
    \/ updateHostsLoad
    \/ updateHostsLoadDir
    \/ updateHostsLock
    \/ updateHostsSetTable
    \/ updateHostsSetTableReverse
    \/ updateHostsUnlock
    \/ notify
    \/ onChangedReturn
    \/ SetOnChanged
    \/ Start
    \/ StartWatch
    \/ Close
    \/ watcherCloseEvents
    \/ watcherCloseErrors
    \/ onlyWritesRecv
    \/ onlyWritesSend
    \/ onlyWritesClose
    \/ watcherLoopRecv
    \/ watcherLoopReturn
    \/ watcherLoopDrain
    \/ watcherLoopUpdate
    \/ watcherLoopNext
    \/ \E r \in Readers : readerRLock(r)
    \/ \E r \in Readers : readerRUnlock(r)

SpecHosts == InitHosts /\ [][NextHosts]_vars

\* The steps of updateHosts after its maps are loaded.
UpdateHostsSteps ==
    \/ updateHostsLock
    \/ updateHostsSetTable
    \/ updateHostsSetTableReverse
    \/ updateHostsUnlock
    \/ notify
    \/ onChangedReturn

\* updateHosts is reading the hosts files.
Loading == upc \in {"load", "loadDirs"}

\* The steps of onlyWrites that do not wait for the file system.
OnlyWritesSteps == onlyWritesSend \/ onlyWritesClose

WatcherLoopSteps ==
    \/ watcherLoopRecv
    \/ watcherLoopReturn
    \/ watcherLoopDrain
    \/ watcherLoopUpdate
    \/ watcherLoopNext

\* Every goroutine that can take a step takes one; a closed watcher closes
\* its channels; a reader that holds the lock releases it.  Reading the
\* hosts files waits for nothing, so weak fairness of the loading steps is
\* that updateHosts is not loading for ever.
FairHosts ==
    /\ []<>(~Loading)
    /\ WF_vars(UpdateHostsSteps)
    /\ WF_vars(StartWatch)
    /\ WF_vars(OnlyWritesSteps)
    /\ WF_vars(WatcherLoopSteps)
    /\ WF_vars(watcherCloseEvents)
    /\ WF_vars(watcherCloseErrors)
    /\ \A r \in Readers : WF_vars(readerRUnlock(r))

LiveHosts == SpecHosts /\ FairHosts

(***************************************************************************)
(* WHOIS: the texts of responses, whoisParse, and the servers of queryAll. *)
(***************************************************************************)
maxValueLength == 250
maxRedirects == 5

defaultServer == <<"w", "h", "o", "i", "s", ".", "a", "r", "i", "n", ".", "n", "e", "t">>
defaultPort == <<"4", "3">>

\* The keys whoisParse looks for, and the prefix it cuts from a referral.
KeyOrgname == <<"o", "r", "g", "n", "a", "m", "e">>
KeyOrgName == <<"o", "r", "g", "-", "n", "a", "m", "e">>
KeyCity == <<"c", "i", "t", "y">>
KeyCountry == <<"c", "o", "u", "n", "t", "r", "y">>
KeyDescr == <<"d", "e", "s", "c", "r">>
KeyNetname == <<"n", "e", "t", "n", "a", "m", "e">>
KeyWhois == <<"w", "h", "o", "i", "s">>
KeyReferralServer == <<"r", "e", "f", "e", "r", "r", "a", "l", "s", "e", "r", "v", "e", "r">>
PrefixWhois == <<"w", "h", "o", "i", "s", ":", "/", "/">>

UpperLetters == <<"A", "B", "C", "D", "E", "F", "G", "H", "I", "J", "K", "L", "M", "N",
      "O", "P", "Q", "R", "S", "T", "U", "V", "W", "X", "Y", "Z">>
LowerLetters == <<"a", "b", "c", "d", "e", "f", "g", "h", "i", "j", "k", "l", "m", "n",
      "o", "p", "q", "r", "s", "t", "u", "v", "w", "x", "y", "z">>

\* strings.ToLower on ASCII text.
ToLower(s) ==
    [i \in 1..Len(s) |->
        IF \E j \in 1..26 : UpperLetters[j] = s[i]
        THEN LowerLetters[CHOOSE j \in 1..26 : UpperLetters[j] = s[i]]
        ELSE s[i]]

\* strings.TrimPrefix
TrimPrefix(s, prefix) ==
    IF HasPrefix(s, prefix) THEN SubSeq(s, Len(prefix) + 1, Len(s)) ELSE s

\* strings.Split(s, sep) for a separator of one byte.
RECURSIVE Split(_, _)
Split(s, sep) ==
    LET i == IndexByte(s, sep)
    IN IF i = -1 THEN <<s>>
       ELSE <<SubSeq(s, 1, i)>> \o Split(SubSeq(s, i + 2, Len(s)), sep)

\* strings.SplitN(s, sep, 2) for a separator of one byte.
SplitN2(s, sep) ==
    LET i == IndexByte(s, sep)
    IN IF i = -1 THEN <<s>>
       ELSE <<SubSeq(s, 1, i), SubSeq(s, i + 2, Len(s))>>

\* trimValue: a value longer than maxValueLength is cut and ends in "...".
trimValue(s) ==
    IF Len(s) <= maxValueLength THEN s
    ELSE SubSeq(s, 1, maxValueLength - 3) \o <<".", ".", ".">>

\* coalesceStr of two strings: the first that is not empty.
coalesceStr(s1, s2) ==
    IF s1 # <<>> THEN s1 ELSE IF s2 # <<>> THEN s2 ELSE <<>>

isWhoisComment(s) == Len(s) = 0 \/ s[1] = "#" \/ s[1] = "%"

\* whoisParse: the body of its loop for the line l, on the map m and the
\* local orgname.
whoisParseLine(st, l) ==
    IF isWhoisComment(l) THEN st
    ELSE LET kv == SplitN2(l, ":")
         IN IF Len(kv) # 2 THEN st
            ELSE LET k == ToLower(TrimSpace(kv[1]))
                     v == TrimSpace(kv[2])
                 IN IF v = <<>> THEN st
                    ELSE IF k = KeyOrgname \/ k = KeyOrgName
                    THEN [m |-> MapSet(st.m, "orgname", trimValue(v)),
                          orgname |-> trimValue(v)]
                    ELSE IF k = KeyCity
                    THEN [st EXCEPT !.m = MapSet(@, "city", trimValue(v))]
                    ELSE IF k = KeyCountry
                    THEN [st EXCEPT !.m = MapSet(@, "country", trimValue(v))]
                    ELSE IF k = KeyDescr \/ k = KeyNetname
                    THEN [m |-> MapSet(st.m, "orgname",
                                       coalesceStr(st.orgname, v)),
                          orgname |-> coalesceStr(st.orgname, v)]
                    ELSE IF k = KeyWhois
                    THEN [st EXCEPT !.m = MapSet(@, "whois", v)]
                    ELSE IF k = KeyReferralServer
                    THEN [st EXCEPT !.m =
                            MapSet(@, "whois", TrimPrefix(v, PrefixWhois))]
                    ELSE st

RECURSIVE whoisParseLines(_, _)
whoisParseLines(st, lines) ==
    IF lines = <<>> THEN st
    ELSE whoisParseLines(whoisParseLine(st, Head(lines)), Tail(lines))

\* whoisParse: the map of the keys orgname, city, country and whois.
whoisParse(data) ==
    whoisParseLines([m |-> EmptyMap, orgname |-> <<>>],
                    Split(data, "\n")).m

\* m[key] of a map of strings: the empty string for a key it has not.
MapGet(m, key) == IF key \in DOMAIN m THEN m[key] ELSE <<>>

\* net.SplitHostPort returns no error: the text ends in ":port" after a host
\* without colons or a host in brackets.
SplitHostPortOK(s) ==
    LET colons == {i \in 1..Len(s) : s[i] = ":"}
        last == CHOOSE i \in colons : \A j \in colons : j <= i
    IN /\ colons # {}
       /\ IF s[1] = "["
          THEN /\ last > 1
               /\ s[last - 1] = "]"
               /\ \A j \in 2..(last - 2) : s[j] # "[" /\ s[j] # "]"
          ELSE /\ Cardinality(colons) = 1
               /\ \A j \in 1..Len(s) : s[j] # "[" /\ s[j] # "]"

\* net.JoinHostPort
JoinHostPort(host, port) ==
    IF \E i \in 1..Len(host) : host[i] = ":" \/ host[i] = "%"
    THEN <<"[">> \o host \o <<"]", ":">> \o port
    ELSE host \o <<":">> \o port

\* queryAll that takes the redirect as it is, with no port added.
NextServerNoPort(redir) == ToLower(redir)

\* queryAll: the server of the next query after a response that names redir.
NextServer(redir) ==
    IF SplitHostPortOK(ToLower(redir)) THEN ToLower(redir)
    ELSE JoinHostPort(ToLower(redir), defaultPort)

\* Responses of WHOIS servers.
\* "City: Rome\r\n"
RespCity == <<"C", "i", "t", "y", ":", " ", "R", "o", "m", "e", "\r", "\n">>
\* "% no match\n"
RespNone == <<"%", " ", "n", "o", " ", "m", "a", "t", "c", "h", "\n">>
\* "whois: A.b\ncity: Rome\n"
RespRedir == <<"w", "h", "o", "i", "s", ":", " ", "A", ".", "b", "\n", "c", "i",
      "t", "y", ":", " ", "R", "o", "m", "e", "\n">>
\* "ReferralServer: whois://w.x:44\n"
RespReferral == <<"R", "e", "f", "e", "r", "r", "a", "l", "S", "e", "r", "v", "e", "r",
      ":", " ", "w", "h", "o", "i", "s", ":", "/", "/", "w", ".", "x",
      ":", "4", "4", "\n">>
Responses == {RespCity, RespNone, RespRedir, RespReferral}

\* The errors of query: of the dial, of the write and of the read.
QueryErrors == {"dial", "write", "read"}
ErrRedirectLoop == "whois: redirect loop"

\* What query and queryAll return.
NoResult == [kind |-> "none", resp |-> <<>>, err |-> ""]
Ok(resp) == [kind |-> "ok", resp |-> resp, err |-> ""]
Err(e) == [kind |-> "err", resp |-> <<>>, err |-> e]
QueryResults == {Ok(r) : r \in Responses} \cup {Err(e) : e \in QueryErrors}

\* net.SplitHostPort: the host of an address that ends in ":port".
SplitHost(s) ==
    LET last == CHOOSE i \in 1..Len(s) :
                    s[i] = ":" /\ \A j \in (i + 1)..Len(s) : s[j] # ":"
    IN IF s[1] = "[" THEN SubSeq(s, 2, last - 2) ELSE SubSeq(s, 1, last - 1)

\* query: what it writes to the server.
QueryText(target, serverAddr) ==
    (IF SplitHost(serverAddr) = defaultServer
     THEN <<"n", " ", "+", " ">> ELSE <<>>) \o target \o <<"\r", "\n">>

\* queryAll: its locals at the start of the loop, and one turn of the loop
\* in which query returns r; res is what queryAll returns, NoResult while
\* the loop goes on.
QueryAllStart ==
    [i |-> 0, server |-> JoinHostPort(defaultServer, defaultPort),
     res |-> NoResult]
queryAllTurn(st, r) ==
    LET m == whoisParse(r.resp)
    IN IF r.kind = "err" \/ "whois" \notin DOMAIN m
       THEN [st EXCEPT !.res = r]
       ELSE [i |-> st.i + 1,
             server |-> NextServer(m["whois"]),
             res |-> IF st.i + 1 # maxRedirects THEN NoResult
                     ELSE Err(ErrRedirectLoop)]

\* Everything queryAll can return.
RECURSIVE QueryAllReturns(_)
QueryAllReturns(st) ==
    IF st.res # NoResult THEN {st.res}
    ELSE UNION {QueryAllReturns(queryAllTurn(st, r)) : r \in QueryResults}
queryAllReturns == QueryAllReturns(QueryAllStart)

\* RuntimeClientWhoisInfo and process: the record made of a response, nil
\* (NoInfo) for an error and for a record of three empty fields.
WhoisInfo(m) ==
    [City |-> MapGet(m, "city"), Country |-> MapGet(m, "country"),
     Orgname |-> MapGet(m, "orgname")]
NoInfo == [City |-> <<>>, Country |-> <<>>, Orgname |-> <<>>]
process(res) ==
    IF res.kind = "err" THEN NoInfo ELSE WhoisInfo(whoisParse(res.resp))

(***************************************************************************)
(* Whois.Begin and workerLoop.                                             *)
(***************************************************************************)
whoisTTL == 3600

\* The clock advances by a second or by a second less than the TTL.
TickSteps == {1, whoisTTL - 1}

\* binary.BigEndian.PutUint64 and Uint64 on a slice of 8 bytes.
RECURSIVE PutBytes(_, _)
PutBytes(v, n) ==
    IF n = 0 THEN <<>> ELSE Append(PutBytes(v \div 256, n - 1), v % 256)
PutUint64(v) == PutBytes(v, 8)
RECURSIVE Uint64From(_, _, _)
Uint64From(b, i, acc) ==
    IF i > 8 THEN acc ELSE Uint64From(b, i + 1, acc * 256 + b[i])
Uint64(b) == Uint64From(b, 1, 0)

\* The cache of golibs with EnableLRU: Get returns the value, nil if there
\* is none, and makes the entry the most recently used one.
CacheHas(c, key) == \E i \in 1..Len(c) : c[i].key = key
CacheIndex(c, key) == CHOOSE i \in 1..Len(c) : c[i].key = key
CacheWithout(c, i) == SubSeq(c, 1, i - 1) \o SubSeq(c, i + 1, Len(c))
CacheGet(c, key) ==
    IF CacheHas(c, key) THEN c[CacheIndex(c, key)].val ELSE <<>>
CacheUse(c, key) ==
    IF CacheHas(c, key)
    THEN <<c[CacheIndex(c, key)]>> \o CacheWithout(c, CacheIndex(c, key))
    ELSE c

\* Set replaces the value of a key it has; for a new key it first drops the
\* least recently used entry when MaxCount entries are held.
CacheSet(c, key, val) ==
    LET entry == [key |-> key, val |-> val]
    IN IF CacheHas(c, key)
       THEN <<entry>> \o CacheWithout(c, CacheIndex(c, key))
       ELSE IF Len(c) >= CacheMaxCount
            THEN <<entry>> \o SubSeq(c, 1, CacheMaxCount - 1)
            ELSE <<entry>> \o c

\* The keys that Set drops.
CacheDrops(c, key) ==
    IF ~CacheHas(c, key) /\ Len(c) >= CacheMaxCount
    THEN {c[i].key : i \in CacheMaxCount..Len(c)}
    ELSE {}

\* Begin that also returns at the very second the entry expires.
NotExpiredInclusive(expire, now) ==
    /\ Len(expire) # 0
    /\ Uint64(expire) >= now

\* Begin: len(expire) != 0 and exp > now.
NotExpired(expire, now) ==
    /\ Len(expire) # 0
    /\ Uint64(expire) > now

\* A task calls Begin(ip) while no other call is in progress, and reads the
\* clock.
BeginCall(c, ip) ==
    /\ \A d \in Callers : wpc[d] = "idle"
    /\ wpc' = [wpc EXCEPT ![c] = "Get"]
    /\ wip' = [wip EXCEPT ![c] = ip]
    /\ wnow' = [wnow EXCEPT ![c] = clock]
    /\ UNCHANGED <<clock, nTicks, ipAddrs, ipChan, wkIP, wkRes, whoisInfo, recAt, lastEnq,
                   dropAt>>
    /\ UNCHANGED outsideWorker

\* Begin: w.ipAddrs.Get and the test of the expiry time.
BeginGet(c) ==
    /\ wpc[c] = "Get"
    /\ ipAddrs' = CacheUse(ipAddrs, wip[c])
    /\ IF NotExpired(CacheGet(ipAddrs, wip[c]), wnow[c])
       THEN /\ wpc' = [wpc EXCEPT ![c] = "idle"]
            /\ wip' = [wip EXCEPT ![c] = NoIP]
            /\ wnow' = [wnow EXCEPT ![c] = 0]
       ELSE /\ wpc' = [wpc EXCEPT ![c] = "Set"]
            /\ UNCHANGED <<wip, wnow>>
    /\ UNCHANGED <<clock, nTicks, ipChan, wkIP, wkRes, whoisInfo,
                   recAt, lastEnq,
                   dropAt>>
    /\ UNCHANGED outsideWorker

\* Begin: w.ipAddrs.Set of now + whoisTTL.
BeginSet(c) ==
    /\ wpc[c] = "Set"
    /\ ipAddrs' = CacheSet(ipAddrs, wip[c], PutUint64(wnow[c] + whoisTTL))
    /\ recAt' = [ip \in WhoisIPs |->
                    IF ip = wip[c] THEN wnow[c]
                    ELSE IF ip \in CacheDrops(ipAddrs, wip[c]) THEN NoTime
                    ELSE recAt[ip]]
    /\ lastEnq' = [ip \in WhoisIPs |->
                    IF ip \in CacheDrops(ipAddrs, wip[c]) THEN NoTime
                    ELSE lastEnq[ip]]
    /\ dropAt' = [ip \in WhoisIPs |->
                    IF ip \in CacheDrops(ipAddrs, wip[c]) THEN NoTime
                    ELSE dropAt[ip]]
    /\ wpc' = [wpc EXCEPT ![c] = "send"]
    /\ UNCHANGED <<clock, nTicks, ipChan, wip, wnow, wkIP, wkRes, whoisInfo>>
    /\ UNCHANGED outsideWorker

\* Begin with a plain send, w.ipChan <- ip, that waits for room.
BeginSendBlocking(c) ==
    /\ wpc[c] = "send"
    /\ Len(ipChan) < IPChanCap
    /\ ipChan' = Append(ipChan, wip[c])
    /\ lastEnq' = [lastEnq EXCEPT ![wip[c]] = wnow[c]]
    /\ UNCHANGED dropAt
    /\ wpc' = [wpc EXCEPT ![c] = "idle"]
    /\ wip' = [wip EXCEPT ![c] = NoIP]
    /\ wnow' = [wnow EXCEPT ![c] = 0]
    /\ UNCHANGED <<clock, nTicks, ipAddrs, wkIP, wkRes, whoisInfo,
                   recAt>>
    /\ UNCHANGED outsideWorker

\* Begin: the select that sends ip to w.ipChan or, the channel being full,
\* takes the default case.
BeginSend(c) ==
    /\ wpc[c] = "send"
    /\ IF Len(ipChan) < IPChanCap
       THEN /\ ipChan' = Append(ipChan, wip[c])
            /\ lastEnq' = [lastEnq EXCEPT ![wip[c]] = wnow[c]]
            /\ UNCHANGED dropAt
       ELSE /\ dropAt' = [dropAt EXCEPT ![wip[c]] = wnow[c]]
            /\ UNCHANGED <<ipChan, lastEnq>>
    /\ wpc' = [wpc EXCEPT ![c] = "idle"]
    /\ wip' = [wip EXCEPT ![c] = NoIP]
    /\ wnow' = [wnow EXCEPT ![c] = 0]
    /\ UNCHANGED <<clock, nTicks, ipAddrs, wkIP, wkRes, whoisInfo,
                   recAt>>
    /\ UNCHANGED outsideWorker

\* workerLoop receives the next address and calls process.
workerLoopRecv ==
    /\ wkIP = NoIP
    /\ ipChan # <<>>
    /\ wkIP' = Head(ipChan)
    /\ ipChan' = Tail(ipChan)
    /\ UNCHANGED <<clock, nTicks, ipAddrs, wpc, wip, wnow, wkRes, whoisInfo,
                   recAt, lastEnq,
                   dropAt>>
    /\ UNCHANGED outsideWorker

\* process: queryAll returns a response or an error.
processQueryAll ==
    /\ wkIP # NoIP
    /\ wkRes = NoResult
    /\ wkRes' \in queryAllReturns
    /\ UNCHANGED <<clock, nTicks, ipAddrs, ipChan, wpc, wip, wnow, wkIP,
                   whoisInfo, recAt, lastEnq,
                   dropAt>>
    /\ UNCHANGED outsideWorker

\* workerLoop without the test of info == nil.
workerLoopNoContinue ==
    /\ wkIP # NoIP
    /\ wkRes # NoResult
    /\ whoisInfo' = MapSet(whoisInfo, IPString(wkIP), process(wkRes))
    /\ wkIP' = NoIP
    /\ wkRes' = NoResult
    /\ UNCHANGED <<clock, nTicks, ipAddrs, ipChan, wpc, wip, wnow, recAt,
                   lastEnq,
                   dropAt>>
    /\ UNCHANGED outsideWorker

\* workerLoop: process returns info or nil; info that is not nil is given to
\* the clients under ip.String().
workerLoopProcess ==
    /\ wkIP # NoIP
    /\ wkRes # NoResult
    /\ LET info == process(wkRes)
       IN whoisInfo' = IF info = NoInfo THEN whoisInfo
                       ELSE MapSet(whoisInfo, IPString(wkIP), info)
    /\ wkIP' = NoIP
    /\ wkRes' = NoResult
    /\ UNCHANGED <<clock, nTicks, ipAddrs, ipChan, wpc, wip, wnow, recAt,
                   lastEnq,
                   dropAt>>
    /\ UNCHANGED outsideWorker

\* Time passes.
Tick ==
    /\ nTicks < MaxTicks
    /\ nTicks' = nTicks + 1
    /\ \E d \in TickSteps : clock' = clock + d
    /\ UNCHANGED <<ipAddrs, ipChan, wpc, wip, wnow, wkIP, wkRes, whoisInfo,
                   recAt, lastEnq,
                   dropAt>>
    /\ UNCHANGED outsideWorker

InitWhois == ParkHTTP /\ ParkHosts /\ ParkWhois /\ ParkStats /\ ParkNew

NextWhois ==
    \/ \E c \in Callers, ip \in WhoisIPs : BeginCall(c, ip)
    \/ \E c \in Callers : BeginGet(c)
    \/ \E c \in Callers : BeginSet(c)
    \/ \E c \in Callers : BeginSend(c)
    \/ workerLoopRecv
    \/ processQueryAll
    \/ workerLoopProcess
    \/ Tick

SpecWhois == InitWhois /\ [][NextWhois]_vars

\* A task calls Begin(ip) whatever the other tasks are doing, and reads the
\* clock.
BeginCallConcurrent(c, ip) ==
    /\ wpc[c] = "idle"
    /\ wpc' = [wpc EXCEPT ![c] = "Get"]
    /\ wip' = [wip EXCEPT ![c] = ip]
    /\ wnow' = [wnow EXCEPT ![c] = clock]
    /\ UNCHANGED <<clock, nTicks, ipAddrs, ipChan, wkIP, wkRes, whoisInfo, recAt, lastEnq,
                   dropAt>>
    /\ UNCHANGED outsideWorker

\* The address the concurrent calls are made for.
SameIP == IPv4(192, 168, 1, 1)

\* The request-handling tasks call Begin concurrently for one address.
NextConcurrent ==
    \/ \E c \in Callers : BeginCallConcurrent(c, SameIP)
    \/ \E c \in Callers : BeginGet(c)
    \/ \E c \in Callers : BeginSet(c)
    \/ \E c \in Callers : BeginSend(c)
    \/ workerLoopRecv
    \/ processQueryAll
    \/ workerLoopProcess
    \/ Tick

SpecConcurrent == InitWhois /\ [][NextConcurrent]_vars

(***************************************************************************)
(* One call of queryAll, query by query.                                   *)
(***************************************************************************)
queryAllCall(target) ==
    /\ qtarget = <<>>
    /\ qtarget' = target
    /\ qi' = QueryAllStart.i
    /\ qserver' = QueryAllStart.server
    /\ qres' = NoResult
    /\ qsent' = <<>>
    /\ UNCHANGED outsideQuery

\* One turn of the loop: the query is sent to server, and its result
\* decides how the loop goes on.
queryAllQuery ==
    /\ qtarget # <<>>
    /\ qres = NoResult
    /\ qsent' = Append(qsent, [server |-> qserver,
                               text |-> QueryText(qtarget, qserver)])
    /\ \E r \in QueryResults :
        LET st == queryAllTurn([i |-> qi, server |-> qserver, res |-> qres], r)
        IN /\ qi' = st.i
           /\ qserver' = st.server
           /\ qres' = st.res
    /\ UNCHANGED qtarget
    /\ UNCHANGED outsideQuery

\* The caller has the result.
queryAllReturn ==
    /\ qtarget # <<>>
    /\ qres # NoResult
    /\ qtarget' = <<>>
    /\ qi' = 0
    /\ qserver' = <<>>
    /\ qres' = NoResult
    /\ qsent' = <<>>
    /\ UNCHANGED outsideQuery

NextQuery ==
    \/ \E ip \in WhoisIPs : queryAllCall(IPString(ip))
    \/ queryAllQuery
    \/ queryAllReturn

SpecQuery == InitWhois /\ [][NextQuery]_vars

(***************************************************************************)
(* Calls of whoisParse on texts of one response.                           *)
(***************************************************************************)
\* n copies of the character c.
Repeat(c, n) == [i \in 1..n |-> c]

\* Lines of responses.  Three have values of 251, 250 and 251 characters.
\* "OrgName: Org", "org-name: ooo...", "City: ccc...", "country: IT\r",
\* "descr: ddd...", "NetName: NET", "# descr: x", "whois: a.b",
\* "address: Via Roma", "city:"
WLineOrgName == <<"O", "r", "g", "N", "a", "m", "e", ":", " ", "O", "r", "g">>
WLineOrgLong == <<"o", "r", "g", "-", "n", "a", "m", "e", ":", " ">> \o Repeat("o", maxValueLength + 1)
WLineCity == <<"C", "i", "t", "y", ":", " ">> \o Repeat("c", maxValueLength)
WLineCountry == <<"c", "o", "u", "n", "t", "r", "y", ":", " ", "I", "T", "\r">>
WLineDescr == <<"d", "e", "s", "c", "r", ":", " ">> \o Repeat("d", maxValueLength + 1)
WLineNetName == <<"N", "e", "t", "N", "a", "m", "e", ":", " ", "N", "E", "T">>
WLineComment == <<"#", " ", "d", "e", "s", "c", "r", ":", " ", "x">>
WLineWhois == <<"w", "h", "o", "i", "s", ":", " ", "a", ".", "b">>
WLineOther == <<"a", "d", "d", "r", "e", "s", "s", ":", " ", "V", "i", "a", " ", "R",
      "o", "m", "a">>
WLineNoValue == <<"c", "i", "t", "y", ":">>
WLines ==
    {WLineOrgName, WLineOrgLong, WLineCity, WLineCountry, WLineDescr,
     WLineNetName, WLineComment, WLineWhois, WLineOther, WLineNoValue}

\* The lines of a text, each ended by "\n".
RECURSIVE JoinLines(_)
JoinLines(lines) ==
    IF lines = <<>> THEN <<>>
    ELSE Head(lines) \o <<"\n">> \o JoinLines(Tail(lines))

WTexts == {JoinLines(lines) : lines \in SeqsUpTo(WLines, MaxParseLines)}

whoisParseCall(data) ==
    /\ pdata = <<>>
    /\ data # <<>>
    /\ pdata' = data
    /\ pm' = whoisParse(data)
    /\ UNCHANGED outsideParse

\* The caller has the map.
whoisParseReturn ==
    /\ pdata # <<>>
    /\ pdata' = <<>>
    /\ pm' = <<>>
    /\ UNCHANGED outsideParse

NextParse ==
    \/ \E data \in WTexts : whoisParseCall(data)
    \/ whoisParseReturn

SpecParse == InitWhois /\ [][NextParse]_vars

(***************************************************************************)
(* The statistics module: its configuration and its HTTP handlers, in the  *)
(* two revisions of the handlers.                                          *)
(***************************************************************************)
RevOld == "http.go"
RevNew == "part_001"
Revisions == {RevOld, RevNew}

\* A time.Duration counts half hours (hh) and the nanoseconds beyond them;
\* an interval of a request body, a float64 of milliseconds, counts half
\* hours and the half milliseconds beyond them (hms).
Dur(hh, ns) == [hh |-> hh, ns |-> ns]
Ms(hh, hms) == [hh |-> hh, hms |-> hms]
Hour == Dur(2, 0)
Day == Dur(48, 0)
Days(n) == Dur(n * Day.hh, 0)
DurLess(a, b) == a.hh < b.hh \/ (a.hh = b.hh /\ a.ns < b.ns)

\* time.Duration(float64(time.Millisecond) * reqData.Interval)
DurationOfMs(f) == Dur(f.hh, f.hms * 500000)
\* float64(s.limitIvl.Milliseconds())
MsOfDuration(d) == Ms(d.hh, 2 * (d.ns \div 1000000))
\* uint32(ivl.Hours() / 24)
DaysOf(d) == d.hh \div Day.hh

\* aghalg.NullBool and BoolToNullBool
NullBools == {"NBTrue", "NBFalse", "NBNull"}
BoolToNullBool(b) == IF b THEN "NBTrue" ELSE "NBFalse"

\* checkInterval: the supported numbers of days.
checkInterval(days) == days \in {0, 1, 7, 30, 90, 365}

\* setLimit and setLimitLocked: the configuration with a limit of limitDays
\* days; zero days disable the statistics.
setLimit(cfg, limitDays) ==
    IF limitDays # 0
    THEN [cfg EXCEPT !.enabled = TRUE, !.limitIvl = Days(limitDays)]
    ELSE [cfg EXCEPT !.enabled = FALSE]

\* aghnet.NewDomainNameSet: the error for an empty and for a repeated host
\* name, "" when the names make a set.
NewDomainNameSetErr(names) ==
    IF \E i \in 1..Len(names) : names[i] = ""
    THEN "ignored: host name is empty"
    ELSE IF \E i, j \in 1..Len(names) : i < j /\ names[i] = names[j]
    THEN "ignored: duplicate host name"
    ELSE ""
NewDomainNameSet(names) == {names[i] : i \in 1..Len(names)}

\* s.ignored.Values(): the names of the set in some order.
Values(set) ==
    {q \in SeqsUpTo(set, Cardinality(set)) :
        Len(q) = Cardinality(set) /\ {q[i] : i \in 1..Len(q)} = set}

\* The interval test of handleStatsConfigV2 that has no upper bound.
IntervalOKNoMax(ivl) == ~DurLess(ivl, Hour)

\* handleStatsConfigV2: the interval is neither below time.Hour nor above
\* timeutil.Day*365.
IntervalOK(ivl) == ~DurLess(ivl, Hour) /\ ~DurLess(Days(365), ivl)

\* The same in http.go: not above timeutil.Day*366, and a supported number
\* of days.
IntervalOKHttp(ivl) ==
    /\ ~DurLess(ivl, Hour)
    /\ ~DurLess(Days(366), ivl)
    /\ checkInterval(DaysOf(ivl))

\* The requests of the model.
Intervals ==
    {Ms(1, 0), Ms(2, 0), Ms(2, 1), Ms(Days(365).hh + 2, 0),
     Ms(Days(366).hh + 2, 0)}
IgnoredLists == {<<>>, <<"ignor.ed">>, <<"ignor.ed", "ignor.ed">>, <<"">>}
PutReqs ==
    {[kind |-> "PUT", decodes |-> d, enabled |-> e, interval |-> f,
      ignored |-> l, days |-> 0] :
        d \in BOOLEAN, e \in NullBools, f \in Intervals, l \in IgnoredLists}
PostReqs ==
    {[kind |-> "POST", decodes |-> d, enabled |-> "NBNull",
      interval |-> Ms(0, 0), ignored |-> <<>>, days |-> n] :
        d \in BOOLEAN, n \in {0, 1, 2}}
NoReq ==
    [kind |-> "", decodes |-> FALSE, enabled |-> "NBNull",
     interval |-> Ms(0, 0), ignored |-> <<>>, days |-> 0]

\* Responses: the status and the text or the configuration sent.
NoBody == ""
NoResp == [code |-> 0, body |-> NoBody]
Resp(code, body) == [code |-> code, body |-> body]

Tasks == {"writer", "reader"}

\* The fields of StatsCtx that make the configuration.
Config == [enabled |-> enabled, limitIvl |-> limitIvl, ignored |-> ignored]

\* sync.Mutex.Unlock: the mutex is free afterwards, whoever held it; the
\* unlock of a free mutex is a fatal error that ends the process.
Unlock ==
    /\ statsLock' = "free"
    /\ crashed' = (statsLock = "free")

\* handleStatsConfig up to its Lock, in part_001.
handleStatsConfig(req) ==
    /\ revision = RevNew
    /\ ~crashed
    /\ spc["writer"] = "idle"
    /\ sreq' = req
    /\ IF ~req.decodes
       THEN /\ sresp' = [sresp EXCEPT !["writer"] =
                            Resp(StatusBadRequest, "json decode")]
            /\ spc' = [spc EXCEPT !["writer"] = "done"]
       ELSE IF ~checkInterval(req.days)
       THEN /\ sresp' = [sresp EXCEPT !["writer"] =
                            Resp(StatusBadRequest, "Unsupported interval")]
            /\ spc' = [spc EXCEPT !["writer"] = "done"]
       ELSE /\ spc' = [spc EXCEPT !["writer"] = "lock"]
            /\ UNCHANGED sresp
    /\ UNCHANGED <<revision, enabled, limitIvl, ignored, statsLock, crashed,
                   nmod>>
    /\ UNCHANGED outsideHandlers

\* handleStatsConfig up to its Lock, in http.go: both error paths unlock
\* s.lock.
handleStatsConfigHttp(req) ==
    /\ revision = RevOld
    /\ ~crashed
    /\ spc["writer"] = "idle"
    /\ sreq' = req
    /\ IF ~req.decodes
       THEN /\ sresp' = [sresp EXCEPT !["writer"] =
                            Resp(StatusBadRequest, "json decode")]
            /\ Unlock
            /\ spc' = [spc EXCEPT !["writer"] = "done"]
       ELSE IF ~checkInterval(req.days)
       THEN /\ sresp' = [sresp EXCEPT !["writer"] =
                            Resp(StatusBadRequest, "Unsupported interval")]
            /\ Unlock
            /\ spc' = [spc EXCEPT !["writer"] = "done"]
       ELSE /\ spc' = [spc EXCEPT !["writer"] = "lock"]
            /\ UNCHANGED <<sresp, statsLock, crashed>>
    /\ UNCHANGED <<revision, enabled, limitIvl, ignored, nmod>>
    /\ UNCHANGED outsideHandlers

\* handleStatsConfigV2 up to its Lock, in part_001.
handleStatsConfigV2(req) ==
    /\ revision = RevNew
    /\ ~crashed
    /\ spc["writer"] = "idle"
    /\ sreq' = req
    /\ IF ~req.decodes
       THEN /\ sresp' = [sresp EXCEPT !["writer"] =
                            Resp(StatusBadRequest, "json decode")]
            /\ spc' = [spc EXCEPT !["writer"] = "done"]
       ELSE IF ~IntervalOK(DurationOfMs(req.interval))
       THEN /\ sresp' = [sresp EXCEPT !["writer"] =
                            Resp(StatusBadRequest, "unsupported interval")]
            /\ spc' = [spc EXCEPT !["writer"] = "done"]
       ELSE /\ spc' = [spc EXCEPT !["writer"] = "lock"]
            /\ UNCHANGED sresp
    /\ UNCHANGED <<revision, enabled, limitIvl, ignored, statsLock, crashed,
                   nmod>>
    /\ UNCHANGED outsideHandlers

\* handleStatsConfigV2 up to its Lock, in http.go.
handleStatsConfigV2Http(req) ==
    /\ revision = RevOld
    /\ ~crashed
    /\ spc["writer"] = "idle"
    /\ sreq' = req
    /\ IF ~req.decodes
       THEN /\ sresp' = [sresp EXCEPT !["writer"] =
                            Resp(StatusBadRequest, "json decode")]
            /\ spc' = [spc EXCEPT !["writer"] = "done"]
       ELSE IF ~IntervalOKHttp(DurationOfMs(req.interval))
       THEN /\ sresp' = [sresp EXCEPT !["writer"] =
                            Resp(StatusBadRequest, "unsupported interval")]
            /\ spc' = [spc EXCEPT !["writer"] = "done"]
       ELSE /\ spc' = [spc EXCEPT !["writer"] = "lock"]
            /\ UNCHANGED sresp
    /\ UNCHANGED <<revision, enabled, limitIvl, ignored, statsLock, crashed,
                   nmod>>
    /\ UNCHANGED outsideHandlers

\* A request for the v2 configuration arrives: handleStatsInfoV2 starts
\* with its Lock.
handleStatsInfoV2Call ==
    /\ ~crashed
    /\ spc["reader"] = "idle"
    /\ spc' = [spc EXCEPT !["reader"] = "lock"]
    /\ UNCHANGED <<revision, enabled, limitIvl, ignored, statsLock, crashed,
                   sreq, sresp, nmod>>
    /\ UNCHANGED outsideHandlers

\* s.lock.Lock() of a handler.
Lock(t) ==
    /\ ~crashed
    /\ spc[t] = "lock"
    /\ statsLock = "free"
    /\ statsLock' = t
    /\ spc' = [spc EXCEPT ![t] = "locked"]
    /\ UNCHANGED <<revision, enabled, limitIvl, ignored, crashed, sreq,
                   sresp, nmod>>
    /\ UNCHANGED outsideHandlers

\* The configuration and the response of handleStatsConfigV2 after its
\* Lock, for the configuration cfg that has the new interval already.
SetIgnored(cfg, names) ==
    IF Len(names) > 0
    THEN IF NewDomainNameSetErr(names) # ""
         THEN [cfg |-> cfg,
               resp |-> Resp(StatusBadRequest, NewDomainNameSetErr(names))]
         ELSE [cfg |-> [cfg EXCEPT !.ignored = NewDomainNameSet(names)],
               resp |-> Resp(StatusOK, NoBody)]
    ELSE [cfg |-> cfg, resp |-> Resp(StatusOK, NoBody)]

\* A handler that holds the lock stores cfg, answers resp, makes calls calls
\* of configModified, and unlocks; its deferred configModified is left.
Commit(cfg, resp, calls) ==
    /\ ~crashed
    /\ spc["writer"] = "locked"
    /\ enabled' = cfg.enabled
    /\ limitIvl' = cfg.limitIvl
    /\ ignored' = cfg.ignored
    /\ sresp' = [sresp EXCEPT !["writer"] = resp]
    /\ nmod' = nmod + calls
    /\ Unlock
    /\ spc' = [spc EXCEPT !["writer"] = "deferred"]
    /\ UNCHANGED <<revision, sreq>>
    /\ UNCHANGED outsideHandlers

\* handleStatsConfig after its Lock, in part_001: setLimitLocked.
handleStatsConfigSet ==
    /\ revision = RevNew
    /\ sreq.kind = "POST"
    /\ Commit(setLimit(Config, sreq.days), Resp(StatusOK, NoBody), 0)

\* handleStatsConfig after its Lock, in http.go: setLimit and a call of
\* configModified.
handleStatsConfigHttpSet ==
    /\ revision = RevOld
    /\ sreq.kind = "POST"
    /\ Commit(setLimit(Config, sreq.days), Resp(StatusOK, NoBody), 1)

\* handleStatsConfigV2 after its Lock, in part_001: enabled, limitIvl and
\* then the ignored names.
handleStatsConfigV2Set ==
    /\ revision = RevNew
    /\ sreq.kind = "PUT"
    /\ LET cfg == [Config EXCEPT !.enabled = (sreq.enabled = "NBTrue"),
                                 !.limitIvl = DurationOfMs(sreq.interval)]
           res == SetIgnored(cfg, sreq.ignored)
       IN Commit(res.cfg, res.resp, 0)

\* handleStatsConfigV2 after its Lock, in http.go: setLimit and then the
\* ignored names.
handleStatsConfigV2HttpSet ==
    /\ revision = RevOld
    /\ sreq.kind = "PUT"
    /\ LET cfg == setLimit(Config, DaysOf(DurationOfMs(sreq.interval)))
           res == SetIgnored(cfg, sreq.ignored)
       IN Commit(res.cfg, res.resp, 0)

\* The deferred s.configModified() of the handlers that change the
\* configuration.
configModified ==
    /\ ~crashed
    /\ spc["writer"] = "deferred"
    /\ nmod' = nmod + 1
    /\ spc' = [spc EXCEPT !["writer"] = "done"]
    /\ UNCHANGED <<revision, enabled, limitIvl, ignored, statsLock, crashed,
                   sreq, sresp>>
    /\ UNCHANGED outsideHandlers

\* What handleStatsInfoV2 answers, in part_001 and in http.go.
configRespV2(vals) ==
    [enabled |-> BoolToNullBool(enabled),
     interval |-> MsOfDuration(limitIvl),
     ignored |-> vals]
configRespV2Http(vals) ==
    [enabled |-> BoolToNullBool(enabled),
     interval |-> Ms(limitIvl.hh, 0),
     ignored |-> vals]

\* handleStatsInfoV2 after its Lock.
handleStatsInfoV2 ==
    /\ ~crashed
    /\ spc["reader"] = "locked"
    /\ \E vals \in Values(ignored) :
        sresp' = [sresp EXCEPT !["reader"] =
                    Resp(StatusOK, IF revision = RevNew THEN configRespV2(vals)
                                   ELSE configRespV2Http(vals))]
    /\ Unlock
    /\ spc' = [spc EXCEPT !["reader"] = "done"]
    /\ UNCHANGED <<revision, enabled, limitIvl, ignored, sreq, nmod>>
    /\ UNCHANGED outsideHandlers

\* The handler has returned and the client has the response.
statsReturn(t) ==
    /\ ~crashed
    /\ spc[t] = "done"
    /\ spc' = [spc EXCEPT ![t] = "idle"]
    /\ sresp' = [sresp EXCEPT ![t] = NoResp]
    /\ IF t = "writer"
       THEN sreq' = NoReq /\ nmod' = 0
       ELSE UNCHANGED <<sreq, nmod>>
    /\ UNCHANGED <<revision, enabled, limitIvl, ignored, statsLock, crashed>>
    /\ UNCHANGED outsideHandlers

\* New: the configuration of the tests, enabled or not, in either revision.
InitStats ==
    /\ ParkHTTP
    /\ ParkHosts
    /\ ParkWhois
    /\ revision \in Revisions
    /\ enabled \in BOOLEAN
    /\ limitIvl = Day
    /\ ignored = {}
    /\ statsLock = "free"
    /\ crashed = FALSE
    /\ spc = [t \in Tasks |-> "idle"]
    /\ sreq = NoReq
    /\ sresp = [t \in Tasks |-> NoResp]
    /\ nmod = 0
    /\ ParkRW
    /\ ParkNew

NextStats ==
    \/ \E req \in PostReqs : handleStatsConfig(req)
    \/ \E req \in PostReqs : handleStatsConfigHttp(req)
    \/ \E req \in PutReqs : handleStatsConfigV2(req)
    \/ \E req \in PutReqs : handleStatsConfigV2Http(req)
    \/ handleStatsInfoV2Call
    \/ \E t \in Tasks : Lock(t)
    \/ handleStatsConfigSet
    \/ handleStatsConfigHttpSet
    \/ handleStatsConfigV2Set
    \/ handleStatsConfigV2HttpSet
    \/ configModified
    \/ handleStatsInfoV2
    \/ \E t \in Tasks : statsReturn(t)

SpecStats == InitStats /\ [][NextStats]_vars

(***************************************************************************)
(* The stats configuration handlers statement by statement: one task per   *)
(* handler, with the reads and the writes of the fields of StatsCtx as     *)
(* separate steps between Lock and the deferred Unlock.                    *)
(***************************************************************************)
RWTasks == {"put", "post", "get"}

\* The requests: a PUT of two hours, of two days or of a week, with and
\* without an ignored name, and a POST of a week or of the unsupported two
\* days.
RWPutReqs ==
    {[kind |-> "PUT", decodes |-> TRUE, enabled |-> e, interval |-> f[1],
      ignored |-> f[2], days |-> 0] :
        e \in {"NBTrue", "NBFalse"},
        f \in {<<Ms(2, 0), <<"ignor.ed">>>>, <<Ms(2 * Day.hh, 0), <<>>>>,
               <<Ms(7 * Day.hh, 0), <<>>>>}}
RWPostReqs ==
    {[kind |-> "POST", decodes |-> TRUE, enabled |-> "NBNull",
      interval |-> Ms(0, 0), ignored |-> <<>>, days |-> n] : n \in {2, 7}}
RWGetReqs == {[NoReq EXCEPT !.kind = k] : k \in {"GET", "GETV2"}}

\* handleStatsInfo of part_001: the days answered when s.limitIvl was read
\* as ivl and s.enabled as en1 at :92 and as en2 at :97.
StatsInfoDays(ivl, en1, en2) ==
    LET days == DaysOf(ivl)
        shown == IF ~checkInterval(days) \/ (en1 /\ days = 0)
                 THEN 90
                 ELSE days
    IN IF ~en2 THEN 0 ELSE shown

\* handleStatsInfo of http.go: s.limitHours / 24, and 0 when disabled.
StatsInfoDaysHttp(ivl, en) == IF ~en THEN 0 ELSE DaysOf(ivl)

\* The body of the legacy answer.
configResp(days) == [interval |-> days]

\* The body handleStatsInfoV2 answers from what it has read.
InfoV2Resp(rev, en, ivl, vals) ==
    [enabled |-> BoolToNullBool(en),
     interval |-> IF rev = RevNew THEN MsOfDuration(ivl) ELSE Ms(ivl.hh, 0),
     ignored |-> vals]

\* What handleStatsConfigV2 at position pc will have stored when it
\* unlocks, if no other task stores in between.
PutLeaves(rev, pc, cfg, req) ==
    LET ivl == DurationOfMs(req.interval)
        c1 == IF pc # "s1"
              THEN cfg
              ELSE IF rev = RevNew
              THEN [cfg EXCEPT !.enabled = (req.enabled = "NBTrue")]
              ELSE setLimit(cfg, DaysOf(ivl))
        c2 == IF pc \in {"s1", "s2"} /\ rev = RevNew
              THEN [c1 EXCEPT !.limitIvl = ivl]
              ELSE c1
    IN SetIgnored(c2, req.ignored).cfg

\* handleStatsConfigV2 has stored a part of its request and not yet all.
MidWrite ==
    /\ rwpc["put"] \in {"s2", "s3"}
    /\ PutLeaves(revision, rwpc["put"], Config, rwreq["put"]) # Config

\* The configurations a GET that holds the lock could have met: the last
\* one stored before a write that is in progress, the one that write
\* leaves, and those stored in between.
Met ==
    /\ quiet' = IF MidWrite' THEN quiet ELSE Config'
    /\ stored' =
        IF rwpc'["get"] \in {"s1", "s2", "s3"}
        THEN stored \cup {quiet'} \cup
             (IF MidWrite'
              THEN {PutLeaves(revision', rwpc'["put"], Config',
                              rwreq'["put"])}
              ELSE {})
        ELSE IF rwpc'["get"] = "unlock"
        THEN stored
        ELSE {}

\* A step of task t to position pc that stores nothing.
Goes(t, pc) ==
    /\ rwpc' = [rwpc EXCEPT ![t] = pc]
    /\ UNCHANGED <<revision, enabled, limitIvl, ignored>>

\* handleStatsConfigV2 up to its Lock; a request it rejects there is
\* answered and the handler returns.
rwConfigV2(req) ==
    /\ ~crashed
    /\ rwpc["put"] = "idle"
    /\ LET ivl == DurationOfMs(req.interval)
           ok == IF revision = RevNew THEN IntervalOK(ivl)
                 ELSE IntervalOKHttp(ivl)
       IN IF ~req.decodes \/ ~ok
          THEN UNCHANGED <<rwpc, rwreq>>
          ELSE /\ rwpc' = [rwpc EXCEPT !["put"] = "lock"]
               /\ rwreq' = [rwreq EXCEPT !["put"] = req]
    /\ UNCHANGED <<revision, enabled, limitIvl, ignored, statsLock, crashed,
                   rwresp, rbuf>>
    /\ Met
    /\ UNCHANGED outsideRW

\* handleStatsConfig up to its Lock; a request it rejects there is answered
\* and the handler returns, in http.go after s.lock.Unlock().
rwConfig(req) ==
    /\ ~crashed
    /\ rwpc["post"] = "idle"
    /\ IF ~req.decodes \/ ~checkInterval(req.days)
       THEN /\ IF revision = RevOld THEN Unlock
               ELSE UNCHANGED <<statsLock, crashed>>
            /\ UNCHANGED <<rwpc, rwreq>>
       ELSE /\ rwpc' = [rwpc EXCEPT !["post"] = "lock"]
            /\ rwreq' = [rwreq EXCEPT !["post"] = req]
            /\ UNCHANGED <<statsLock, crashed>>
    /\ UNCHANGED <<revision, enabled, limitIvl, ignored, rwresp, rbuf>>
    /\ Met
    /\ UNCHANGED outsideRW

\* handleStatsInfo and handleStatsInfoV2 start with their Lock.
rwInfo(req) ==
    /\ ~crashed
    /\ rwpc["get"] = "idle"
    /\ rwreq' = [rwreq EXCEPT !["get"] = req]
    /\ Goes("get", "lock")
    /\ UNCHANGED <<rwresp, statsLock, crashed, rbuf>>
    /\ Met
    /\ UNCHANGED outsideRW

\* s.lock.Lock()
rwLock(t) ==
    /\ ~crashed
    /\ rwpc[t] = "lock"
    /\ statsLock = "free"
    /\ statsLock' = t
    /\ Goes(t, "s1")
    /\ UNCHANGED <<rwreq, rwresp, crashed, rbuf>>
    /\ Met
    /\ UNCHANGED outsideRW

\* handleStatsConfigV2 after its Lock: s.enabled, s.limitIvl and s.ignored
\* in part_001, setLimit and s.ignored in http.go.
rwConfigV2Set ==
    /\ ~crashed
    /\ rwpc["put"] \in {"s1", "s2", "s3"}
    /\ LET req == rwreq["put"]
           ivl == DurationOfMs(req.interval)
       IN CASE rwpc["put"] = "s1" /\ revision = RevNew ->
                 /\ enabled' = (req.enabled = "NBTrue")
                 /\ rwpc' = [rwpc EXCEPT !["put"] = "s2"]
                 /\ UNCHANGED <<limitIvl, ignored>>
            [] rwpc["put"] = "s1" /\ revision = RevOld ->
                 /\ enabled' = setLimit(Config, DaysOf(ivl)).enabled
                 /\ limitIvl' = setLimit(Config, DaysOf(ivl)).limitIvl
                 /\ rwpc' = [rwpc EXCEPT !["put"] = "s3"]
                 /\ UNCHANGED ignored
            [] rwpc["put"] = "s2" ->
                 /\ limitIvl' = ivl
                 /\ rwpc' = [rwpc EXCEPT !["put"] = "s3"]
                 /\ UNCHANGED <<enabled, ignored>>
            [] rwpc["put"] = "s3" ->
                 /\ ignored' = SetIgnored(Config, req.ignored).cfg.ignored
                 /\ rwpc' = [rwpc EXCEPT !["put"] = "unlock"]
                 /\ UNCHANGED <<enabled, limitIvl>>
    /\ UNCHANGED <<revision, rwreq, rwresp, statsLock, crashed, rbuf>>
    /\ Met
    /\ UNCHANGED outsideRW

\* handleStatsConfig after its Lock: setLimitLocked in part_001; setLimit
\* and then a call of configModified in http.go.
rwConfigSet ==
    /\ ~crashed
    /\ rwpc["post"] \in {"s1", "s2"}
    /\ LET cfg == setLimit(Config, rwreq["post"].days)
       IN IF rwpc["post"] = "s1"
          THEN /\ enabled' = cfg.enabled
               /\ limitIvl' = cfg.limitIvl
               /\ rwpc' = [rwpc EXCEPT !["post"] =
                              IF revision = RevNew THEN "unlock" ELSE "s2"]
          ELSE /\ rwpc' = [rwpc EXCEPT !["post"] = "unlock"]
               /\ UNCHANGED <<enabled, limitIvl>>
    /\ UNCHANGED <<revision, ignored, rwreq, rwresp, statsLock, crashed,
                   rbuf>>
    /\ Met
    /\ UNCHANGED outsideRW

\* handleStatsInfoV2 after its Lock: it reads s.enabled, s.limitIvl and
\* s.ignored and writes the response.
rwInfoV2Read ==
    /\ ~crashed
    /\ rwreq["get"].kind = "GETV2"
    /\ rwpc["get"] \in {"s1", "s2", "s3"}
    /\ CASE rwpc["get"] = "s1" ->
              /\ rbuf' = [enabled |-> enabled]
              /\ Goes("get", "s2")
              /\ UNCHANGED rwresp
         [] rwpc["get"] = "s2" ->
              /\ rbuf' = [enabled |-> rbuf.enabled, limitIvl |-> limitIvl]
              /\ Goes("get", "s3")
              /\ UNCHANGED rwresp
         [] rwpc["get"] = "s3" ->
              /\ \E vals \in Values(ignored) :
                    rwresp' = Resp(StatusOK,
                                  InfoV2Resp(revision, rbuf.enabled,
                                             rbuf.limitIvl, vals))
              /\ rbuf' = <<>>
              /\ Goes("get", "unlock")
    /\ UNCHANGED <<rwreq, statsLock, crashed>>
    /\ Met
    /\ UNCHANGED outsideRW

\* handleStatsInfo after its Lock: it reads s.limitIvl, then s.enabled at
\* :92 and again at :97 (in http.go s.limitHours and s.enabled once), and
\* writes the response.
rwInfoRead ==
    /\ ~crashed
    /\ rwreq["get"].kind = "GET"
    /\ rwpc["get"] \in {"s1", "s2", "s3"}
    /\ CASE rwpc["get"] = "s1" ->
              /\ rbuf' = [limitIvl |-> limitIvl]
              /\ Goes("get", IF revision = RevNew THEN "s2" ELSE "s3")
              /\ UNCHANGED rwresp
         [] rwpc["get"] = "s2" ->
              /\ rbuf' = [limitIvl |-> rbuf.limitIvl, enabled |-> enabled]
              /\ Goes("get", "s3")
              /\ UNCHANGED rwresp
         [] rwpc["get"] = "s3" ->
              /\ rwresp' =
                    Resp(StatusOK, configResp(
                        IF revision = RevNew
                        THEN StatsInfoDays(rbuf.limitIvl, rbuf.enabled,
                                           enabled)
                        ELSE StatsInfoDaysHttp(rbuf.limitIvl, enabled)))
              /\ rbuf' = <<>>
              /\ Goes("get", "unlock")
    /\ UNCHANGED <<rwreq, statsLock, crashed>>
    /\ Met
    /\ UNCHANGED outsideRW

\* The deferred s.lock.Unlock() of a handler; a GET returns with it and
\* the client has the response.
rwUnlock(t) ==
    /\ ~crashed
    /\ rwpc[t] = "unlock"
    /\ Unlock
    /\ Goes(t, IF t = "get" THEN "idle" ELSE "deferred")
    /\ rwreq' = [rwreq EXCEPT ![t] = IF t = "get" THEN NoReq ELSE @]
    /\ rwresp' = IF t = "get" THEN NoResp ELSE rwresp
    /\ UNCHANGED rbuf
    /\ Met
    /\ UNCHANGED outsideRW

\* The deferred s.configModified() of a handler that stores, and its
\* return.
rwConfigModified(t) ==
    /\ ~crashed
    /\ rwpc[t] = "deferred"
    /\ Goes(t, "idle")
    /\ rwreq' = [rwreq EXCEPT ![t] = NoReq]
    /\ UNCHANGED <<rwresp, statsLock, crashed, rbuf>>
    /\ Met
    /\ UNCHANGED outsideRW

\* New with the configuration of the tests, in either revision.
InitRW ==
    /\ ParkHTTP
    /\ ParkHosts
    /\ ParkWhois
    /\ ParkNew
    /\ revision \in Revisions
    /\ enabled = TRUE
    /\ limitIvl = Day
    /\ ignored = {}
    /\ statsLock = "free"
    /\ crashed = FALSE
    /\ spc = [t \in Tasks |-> "idle"]
    /\ sreq = NoReq
    /\ sresp = [t \in Tasks |-> NoResp]
    /\ nmod = 0
    /\ rwpc = [t \in RWTasks |-> "idle"]
    /\ rwreq = [t \in RWTasks |-> NoReq]
    /\ rwresp = NoResp
    /\ rbuf = <<>>
    /\ quiet = Config
    /\ stored = {}

NextRW ==
    \/ \E req \in RWPutReqs : rwConfigV2(req)
    \/ \E req \in RWPostReqs : rwConfig(req)
    \/ \E req \in RWGetReqs : rwInfo(req)
    \/ \E t \in RWTasks : rwLock(t)
    \/ rwConfigV2Set
    \/ rwConfigSet
    \/ rwInfoV2Read
    \/ rwInfoRead
    \/ \E t \in RWTasks : rwUnlock(t)
    \/ \E t \in {"put", "post"} : rwConfigModified(t)

SpecRW == InitRW /\ [][NextRW]_vars

(***************************************************************************)
(* The safe-search settings of the filtering module and their four HTTP    *)
(* handlers.                                                               *)
(***************************************************************************)
SSTasks == {"a", "b"}

\* SafeSearchConfig: the enabled flag and the flags of two of the services.
SafeSearchConfig(e, b, y) == [Enabled |-> e, Bing |-> b, YouTube |-> y]
SafeSearchConfigs ==
    {SafeSearchConfig(e, b, y) : e \in BOOLEAN, b \in BOOLEAN, y \in BOOLEAN}
\* req := &SafeSearchConfig{}
ZeroConf == SafeSearchConfig(FALSE, FALSE, FALSE)

\* The requests: the operation, whether the body decodes, and what it
\* decodes to.
SSReq(op, decodes, body) == [op |-> op, decodes |-> decodes, body |-> body]
NoSSReq == SSReq("", FALSE, ZeroConf)
SettingsReqs ==
    {SSReq("settings", TRUE, c) : c \in SafeSearchConfigs}
        \cup {SSReq("settings", FALSE, ZeroConf)}

\* confLock, a sync.RWMutex.
CanLock == confLock.w = "" /\ confLock.r = {}
CanRLock == confLock.w = ""

\* A step of the safe-search handler of task t to position pc.
SSGoes(t, pc) == sspc' = [sspc EXCEPT ![t] = pc]

\* handleSafeSearchEnable and handleSafeSearchDisable begin with
\* setProtectedBool.
handleSafeSearchEnable(t) ==
    /\ sspc[t] = "idle"
    /\ ssreq' = [ssreq EXCEPT ![t] = SSReq("enable", TRUE, ZeroConf)]
    /\ SSGoes(t, "lock")
    /\ UNCHANGED <<safeSearchConf, confLock, ssresp, sslocal, ssmod>>
    /\ UNCHANGED outsideSafeSearch

handleSafeSearchDisable(t) ==
    /\ sspc[t] = "idle"
    /\ ssreq' = [ssreq EXCEPT ![t] = SSReq("disable", TRUE, ZeroConf)]
    /\ SSGoes(t, "lock")
    /\ UNCHANGED <<safeSearchConf, confLock, ssresp, sslocal, ssmod>>
    /\ UNCHANGED outsideSafeSearch

\* handleSafeSearchStatus begins with d.confLock.RLock().
handleSafeSearchStatus(t) ==
    /\ sspc[t] = "idle"
    /\ ssreq' = [ssreq EXCEPT ![t] = SSReq("status", TRUE, ZeroConf)]
    /\ SSGoes(t, "rlock")
    /\ UNCHANGED <<safeSearchConf, confLock, ssresp, sslocal, ssmod>>
    /\ UNCHANGED outsideSafeSearch

\* A settings handler that answers a body it cannot decode and calls
\* ConfigModified all the same.
handleSafeSearchSettingsDefer(t, req) ==
    /\ sspc[t] = "idle"
    /\ ssreq' = [ssreq EXCEPT ![t] = req]
    /\ IF ~req.decodes
       THEN /\ ssresp' = [ssresp EXCEPT ![t] =
                             Resp(StatusBadRequest, "reading req")]
            /\ SSGoes(t, "modified")
       ELSE /\ SSGoes(t, "lock")
            /\ UNCHANGED ssresp
    /\ UNCHANGED <<safeSearchConf, confLock, sslocal, ssmod>>
    /\ UNCHANGED outsideSafeSearch

\* handleSafeSearchSettings up to its Lock: a body that does not decode is
\* answered with 400 and the handler returns.
handleSafeSearchSettings(t, req) ==
    /\ sspc[t] = "idle"
    /\ ssreq' = [ssreq EXCEPT ![t] = req]
    /\ IF ~req.decodes
       THEN /\ ssresp' = [ssresp EXCEPT ![t] =
                             Resp(StatusBadRequest, "reading req")]
            /\ SSGoes(t, "done")
       ELSE /\ SSGoes(t, "lock")
            /\ UNCHANGED ssresp
    /\ UNCHANGED <<safeSearchConf, confLock, sslocal, ssmod>>
    /\ UNCHANGED outsideSafeSearch

\* d.confLock.Lock(), in handleSafeSearchSettings and in setProtectedBool.
ssLock(t) ==
    /\ sspc[t] = "lock"
    /\ CanLock
    /\ confLock' = [confLock EXCEPT !.w = t]
    /\ SSGoes(t, "set")
    /\ UNCHANGED <<safeSearchConf, ssreq, ssresp, sslocal, ssmod>>
    /\ UNCHANGED outsideSafeSearch

\* A settings request that keeps the enabled flag of the record.
ReplaceKeepEnabled(conf, req) == [req EXCEPT !.Enabled = conf.Enabled]

\* d.Config.SafeSearchConf = *req
Replace(conf, req) == req

\* setProtectedBool(&d.confLock, &d.Config.SafeSearchConf.Enabled, val)
\* stores val in the flag.
setProtectedBool(conf, val) == [conf EXCEPT !.Enabled = val]

\* The store of a handler that holds the lock.
ssSet(t) ==
    /\ sspc[t] = "set"
    /\ safeSearchConf' =
        CASE ssreq[t].op = "enable" -> setProtectedBool(safeSearchConf, TRUE)
          [] ssreq[t].op = "disable" ->
                setProtectedBool(safeSearchConf, FALSE)
          [] ssreq[t].op = "settings" ->
                Replace(safeSearchConf, ssreq[t].body)
    /\ SSGoes(t, "unlock")
    /\ UNCHANGED <<confLock, ssreq, ssresp, sslocal, ssmod>>
    /\ UNCHANGED outsideSafeSearch

\* d.confLock.Unlock()
ssUnlock(t) ==
    /\ sspc[t] = "unlock"
    /\ confLock' = [confLock EXCEPT !.w = ""]
    /\ SSGoes(t, "modified")
    /\ UNCHANGED <<safeSearchConf, ssreq, ssresp, sslocal, ssmod>>
    /\ UNCHANGED outsideSafeSearch

\* d.Config.ConfigModified(), and aghhttp.OK(w) after it in
\* handleSafeSearchSettings; the other two handlers write nothing, which
\* the server answers with 200.
ssConfigModified(t) ==
    /\ sspc[t] = "modified"
    /\ ssmod' = [ssmod EXCEPT ![t] = @ + 1]
    /\ ssresp' = [ssresp EXCEPT ![t] =
                     IF @ = NoResp THEN Resp(StatusOK, NoBody) ELSE @]
    /\ SSGoes(t, "done")
    /\ UNCHANGED <<safeSearchConf, confLock, ssreq, sslocal>>
    /\ UNCHANGED outsideSafeSearch

\* d.confLock.RLock()
ssRLock(t) ==
    /\ sspc[t] = "rlock"
    /\ CanRLock
    /\ confLock' = [confLock EXCEPT !.r = @ \cup {t}]
    /\ SSGoes(t, "read")
    /\ UNCHANGED <<safeSearchConf, ssreq, ssresp, sslocal, ssmod>>
    /\ UNCHANGED outsideSafeSearch

\* resp := d.Config.SafeSearchConf
ssRead(t) ==
    /\ sspc[t] = "read"
    /\ sslocal' = [sslocal EXCEPT ![t] = safeSearchConf]
    /\ SSGoes(t, "runlock")
    /\ UNCHANGED <<safeSearchConf, confLock, ssreq, ssresp, ssmod>>
    /\ UNCHANGED outsideSafeSearch

\* d.confLock.RUnlock()
ssRUnlock(t) ==
    /\ sspc[t] = "runlock"
    /\ confLock' = [confLock EXCEPT !.r = @ \ {t}]
    /\ SSGoes(t, "write")
    /\ UNCHANGED <<safeSearchConf, ssreq, ssresp, sslocal, ssmod>>
    /\ UNCHANGED outsideSafeSearch

\* aghhttp.WriteJSONResponse(w, r, resp)
ssWriteJSONResponse(t) ==
    /\ sspc[t] = "write"
    /\ ssresp' = [ssresp EXCEPT ![t] = Resp(StatusOK, sslocal[t])]
    /\ sslocal' = [sslocal EXCEPT ![t] = ZeroConf]
    /\ SSGoes(t, "done")
    /\ UNCHANGED <<safeSearchConf, confLock, ssreq, ssmod>>
    /\ UNCHANGED outsideSafeSearch

\* The handler has returned and the client has the response.
ssReturn(t) ==
    /\ sspc[t] = "done"
    /\ ssreq' = [ssreq EXCEPT ![t] = NoSSReq]
    /\ ssresp' = [ssresp EXCEPT ![t] = NoResp]
    /\ ssmod' = [ssmod EXCEPT ![t] = 0]
    /\ SSGoes(t, "idle")
    /\ UNCHANGED <<safeSearchConf, confLock, sslocal>>
    /\ UNCHANGED outsideSafeSearch

\* The filtering module with some safe-search record and no request.
InitSafeSearch ==
    /\ ParkHTTP
    /\ ParkHosts
    /\ ParkWhois
    /\ ParkStats
    /\ ParkMobile
    /\ ParkDHCP
    /\ ParkDNS
    /\ ParkLate
    /\ safeSearchConf \in SafeSearchConfigs
    /\ confLock = [w |-> "", r |-> {}]
    /\ sspc = [t \in SSTasks |-> "idle"]
    /\ ssreq = [t \in SSTasks |-> NoSSReq]
    /\ ssresp = [t \in SSTasks |-> NoResp]
    /\ sslocal = [t \in SSTasks |-> ZeroConf]
    /\ ssmod = [t \in SSTasks |-> 0]

NextSafeSearch ==
    \/ \E t \in SSTasks : handleSafeSearchEnable(t)
    \/ \E t \in SSTasks : handleSafeSearchDisable(t)
    \/ \E t \in SSTasks : handleSafeSearchStatus(t)
    \/ \E t \in SSTasks, req \in SettingsReqs : handleSafeSearchSettings(t, req)
    \/ \E t \in SSTasks : ssLock(t)
    \/ \E t \in SSTasks : ssSet(t)
    \/ \E t \in SSTasks : ssUnlock(t)
    \/ \E t \in SSTasks : ssConfigModified(t)
    \/ \E t \in SSTasks : ssRLock(t)
    \/ \E t \in SSTasks : ssRead(t)
    \/ \E t \in SSTasks : ssRUnlock(t)
    \/ \E t \in SSTasks : ssWriteJSONResponse(t)
    \/ \E t \in SSTasks : ssReturn(t)

SpecSafeSearch == InitSafeSearch /\ [][NextSafeSearch]_vars

(***************************************************************************)
(* The mobile-configuration handlers.                                      *)
(***************************************************************************)
dnsProtoHTTPS == "HTTPS"
dnsProtoTLS == "TLS"
errEmptyHost == "no host in query parameters and no server_name"
StatusInternalServerError == 500

Digits == <<"0", "1", "2", "3", "4", "5", "6", "7", "8", "9">>
IsLetterOrDigit(c) ==
    \/ \E i \in 1..Len(LowerLetters) : c = LowerLetters[i]
    \/ \E i \in 1..Len(UpperLetters) : c = UpperLetters[i]
    \/ \E i \in 1..Len(Digits) : c = Digits[i]

\* The longest domain name label.
MaxLabelLen == 63

\* dnsforward.ValidateClientID: the identifier is a domain name label, that
\* is, letters, digits and hyphens, at most 63 of them, with no hyphen at
\* either end.  The error is a text that names the identifier, the empty
\* sequence stands for nil.
NilError == <<>>
ValidateClientID(id) ==
    IF /\ Len(id) \in 1..MaxLabelLen
       /\ IsLetterOrDigit(id[1])
       /\ IsLetterOrDigit(id[Len(id)])
       /\ \A i \in 1..Len(id) : IsLetterOrDigit(id[i]) \/ id[i] = "-"
    THEN NilError
    ELSE <<"invalid clientid", id>>

\* genUUIDv4 gives some identifier.
UUIDs == {"uuid1", "uuid2"}

\* dnsSettings
dnsSettings(proto, url, name, clientID) ==
    [DNSProtocol |-> proto, ServerURL |-> url, ServerName |-> name,
     clientID |-> clientID]

\* path.Join("/dns-query", clientID)
PathDNSQueryOf(clientID) ==
    IF clientID = <<>>
    THEN <<"/", "d", "n", "s", "-", "q", "u", "e", "r", "y">>
    ELSE <<"/", "d", "n", "s", "-", "q", "u", "e", "r", "y">> \o <<"/">> \o clientID

\* The profile of getMobileConfig for the settings d; u holds the results
\* of the four calls of genUUIDv4 in their order.  plist.MarshalIndent is
\* not modelled: the document is the value it encodes.
getMobileConfig(d, u) ==
    LET https == d.DNSProtocol = dnsProtoHTTPS
        dspName == d.ServerName \o (IF https THEN <<" ", "D", "o", "H">> ELSE <<" ", "D", "o", "T">>)
        settings ==
            IF https
            THEN dnsSettings(d.DNSProtocol,
                             <<"h", "t", "t", "p", "s", ":", "/", "/">> \o d.ServerName
                                 \o PathDNSQueryOf(d.clientID),
                             <<>>, d.clientID)
            ELSE dnsSettings(d.DNSProtocol, <<>>,
                             IF d.clientID # <<>>
                             THEN d.clientID \o <<".">> \o d.ServerName
                             ELSE d.ServerName,
                             d.clientID)
    IN [PayloadContent |->
            [Name |-> dspName,
             PayloadDisplayName |-> dspName,
             PayloadIdentifier |-> u[1],
             PayloadType |-> "com.apple.dnsSettings.managed",
             PayloadUUID |-> u[2],
             PayloadVersion |-> 1,
             DNSSettings |-> settings],
        PayloadDisplayName |-> dspName,
        PayloadIdentifier |-> u[3],
        PayloadRemovalDisallowed |-> FALSE,
        PayloadType |-> "Configuration",
        PayloadUUID |-> u[4],
        PayloadVersion |-> 1]

\* What a handler has written: the status, two headers and the body.
MobileResp(code, type, disposition, body) ==
    [code |-> code, type |-> type, disposition |-> disposition,
     body |-> body]
NoMobileResp == MobileResp(0, "", "", [message |-> ""])

\* A respondJSONError that writes the status it is given.
respondJSONErrorStatus(status, msg) ==
    MobileResp(status, "", "", [message |-> msg])

\* respondJSONError: it writes http.StatusInternalServerError whatever the
\* status it is given, and the message.
respondJSONError(status, msg) ==
    MobileResp(StatusInternalServerError, "", "", [message |-> msg])

\* handleMobileConfig for the query parameters host and client_id.
handleMobileConfig(host, clientID, dnsp, u) ==
    IF host = <<>>
    THEN respondJSONError(StatusInternalServerError, errEmptyHost)
    ELSE IF clientID # <<>> /\ ValidateClientID(clientID) # NilError
    THEN respondJSONError(StatusBadRequest, ValidateClientID(clientID))
    ELSE MobileResp(StatusOK, "application/xml",
                    IF dnsp = dnsProtoTLS
                    THEN "attachment; filename=dot.mobileconfig"
                    ELSE "attachment; filename=doh.mobileconfig",
                    getMobileConfig(dnsSettings(dnsp, <<>>, host, clientID),
                                    u))

\* The query parameters of the model.
MobileHosts == {<<>>, <<"a", ".", "b">>, <<"h">>}
MobileClientIDs == {<<>>, <<"c", "l", "i">>, <<"c", "-", "1">>, <<"-", "c">>, <<"c", " ", "d">>, <<"c", ".", "d">>}

handleMobileConfigDOH(host, clientID, u) ==
    /\ mcresp = NoMobileResp
    /\ mcreq' = [dnsp |-> dnsProtoHTTPS, host |-> host, clientID |-> clientID]
    /\ mcresp' = handleMobileConfig(host, clientID, dnsProtoHTTPS, u)
    /\ UNCHANGED outsideMobile

handleMobileConfigDOT(host, clientID, u) ==
    /\ mcresp = NoMobileResp
    /\ mcreq' = [dnsp |-> dnsProtoTLS, host |-> host, clientID |-> clientID]
    /\ mcresp' = handleMobileConfig(host, clientID, dnsProtoTLS, u)
    /\ UNCHANGED outsideMobile

\* The client has the response.
mobileDone ==
    /\ mcresp # NoMobileResp
    /\ mcreq' = [dnsp |-> "", host |-> <<>>, clientID |-> <<>>]
    /\ mcresp' = NoMobileResp
    /\ UNCHANGED outsideMobile

InitMobile ==
    /\ ParkHTTP
    /\ ParkHosts
    /\ ParkWhois
    /\ ParkStats
    /\ ParkSafeSearch
    /\ ParkDHCP
    /\ ParkDNS
    /\ ParkLate
    /\ mcreq = [dnsp |-> "", host |-> <<>>, clientID |-> <<>>]
    /\ mcresp = NoMobileResp

NextMobile ==
    \/ \E host \in MobileHosts, clientID \in MobileClientIDs,
          u \in [1..4 -> UUIDs] : handleMobileConfigDOH(host, clientID, u)
    \/ \E host \in MobileHosts, clientID \in MobileClientIDs,
          u \in [1..4 -> UUIDs] : handleMobileConfigDOT(host, clientID, u)
    \/ mobileDone

SpecMobile == InitMobile /\ [][NextMobile]_vars

(***************************************************************************)
(* The IPv4 DHCP server: its lease table, the static-lease operations and  *)
(* the DISCOVER, OFFER, REQUEST, ACK exchange.  Addresses are the last     *)
(* octet of 192.168.10.x; the server itself is described by the            *)
(* specification of the DHCP lease-management service and exercised by     *)
(* the tests of package dhcpd.                                             *)
(***************************************************************************)

\* V4ServerConf.RangeStart and V4ServerConf.RangeEnd
RangeStart == 100
RangeEnd == 101

\* The expiry that marks a static lease, and the configured lease duration
\* in seconds, which is the expiry of a lease committed at second zero.
leaseExpireStatic == 1
leaseTime == 86400

\* The hardware addresses of the network and those that speak DHCP.
MACs == {"aa", "11", "22"}
Clients == {"aa", "11"}

\* The addresses a static lease is asked for, and the expiries its caller
\* may have filled in.
LeaseIPs == RangeStart..RangeEnd
CallerExpiries == {0, leaseTime}

Lease(ip, mac, exp) == [IP |-> ip, HWAddr |-> mac, Expiry |-> exp]

IsStatic(l) == l.Expiry = leaseExpireStatic

LeasesDynamic == "dynamic"
LeasesStatic == "static"
LeasesAll == "all"

\* GetLeases: the leases of the asked kind, in the order of the table.
GetLeases(ls, flags) ==
    SelectSeq(ls, LAMBDA l : \/ flags = LeasesAll
                             \/ flags = LeasesStatic /\ IsStatic(l)
                             \/ flags = LeasesDynamic /\ ~IsStatic(l))

ip4InRange(start, stop, ip) == start <= ip /\ ip <= stop

\* What a call on the server returned: for a static-lease operation its
\* lease and whether it failed, for a message the result code of process
\* and the reply; with it the number of leases the call found.
Ret(op, mac, ip, err, code, type, yiaddr) ==
    [op |-> op, mac |-> mac, ip |-> ip, err |-> err, code |-> code,
     type |-> type, yiaddr |-> yiaddr, had |-> Len(leases)]

NoRet ==
    [op |-> "", mac |-> "", ip |-> 0, err |-> FALSE, code |-> 0, type |-> "",
     yiaddr |-> 0, had |-> 0]

NoXchg == [stage |-> "init", offer |-> 0, alone |-> FALSE]

\* An exchange in progress stops being the only thing that happens to the
\* table as soon as another call changes the table.
Disturbed(x) ==
    [c \in Clients |-> [x[c] EXCEPT !.alone = @ /\ leases' = leases]]

addLease(ls, l) == Append(ls, l)

\* A static lease with the address or with the hardware address of l.
StaticExistsIP(ls, l) ==
    \E i \in 1..Len(ls) : IsStatic(ls[i]) /\ ls[i].IP = l.IP
StaticExists(ls, l) ==
    \E i \in 1..Len(ls) :
        IsStatic(ls[i]) /\ (ls[i].IP = l.IP \/ ls[i].HWAddr = l.HWAddr)

\* The table without the dynamic leases that hold the address or the
\* hardware address of l.
rmDynamicLeaseIP(ls, l) ==
    SelectSeq(ls, LAMBDA x : IsStatic(x) \/ x.IP # l.IP)
rmDynamicLease(ls, l) ==
    SelectSeq(ls, LAMBDA x : IsStatic(x)
                             \/ (x.IP # l.IP /\ x.HWAddr # l.HWAddr))

\* The expiry a static lease is stored with, whatever its caller gave.
StaticExpiry(exp) == leaseExpireStatic

AddStaticLease(l) ==
    /\ IF StaticExists(leases, l)
       THEN /\ leases' = leases
            /\ statics' = statics
            /\ dhcpret' = Ret("AddStaticLease", l.HWAddr, l.IP, TRUE, 0, "", 0)
       ELSE /\ leases' = addLease(rmDynamicLease(leases, l),
                                  Lease(l.IP, l.HWAddr, StaticExpiry(l.Expiry)))
            /\ statics' = statics \cup {<<l.IP, l.HWAddr>>}
            /\ dhcpret' = Ret("AddStaticLease", l.HWAddr, l.IP, FALSE, 0, "", 0)
    /\ xchg' = Disturbed(xchg)
    /\ UNCHANGED outsideDHCP

\* The static lease of the table that matches l by address and hardware
\* address together.
StaticMatch(ls, l) ==
    {i \in 1..Len(ls) :
        IsStatic(ls[i]) /\ ls[i].IP = l.IP /\ ls[i].HWAddr = l.HWAddr}

RemoveStaticLease(l) ==
    /\ IF StaticMatch(leases, l) = {}
       THEN /\ leases' = leases
            /\ statics' = statics
            /\ dhcpret' = Ret("RemoveStaticLease", l.HWAddr, l.IP, TRUE, 0, "",
                              0)
       ELSE /\ leases' = SelectSeq(leases, LAMBDA x :
                            ~(IsStatic(x) /\ x.IP = l.IP
                              /\ x.HWAddr = l.HWAddr))
            /\ statics' = statics \ {<<l.IP, l.HWAddr>>}
            /\ dhcpret' = Ret("RemoveStaticLease", l.HWAddr, l.IP, FALSE, 0,
                              "", 0)
    /\ xchg' = Disturbed(xchg)
    /\ UNCHANGED outsideDHCP

\* The lease of a hardware address, 0 when it has none.
findLease(ls, mac) ==
    IF \E i \in 1..Len(ls) : ls[i].HWAddr = mac
    THEN CHOOSE i \in 1..Len(ls) :
            /\ ls[i].HWAddr = mac
            /\ \A j \in 1..Len(ls) : ls[j].HWAddr = mac => i <= j
    ELSE 0

\* The next available address of the range, 0 when every one is held.
nextIP(ls) ==
    LET free == {ip \in LeaseIPs :
                    /\ ip4InRange(RangeStart, RangeEnd, ip)
                    /\ \A i \in 1..Len(ls) : ls[i].IP # ip}
    IN  IF free = {} THEN 0
        ELSE CHOOSE ip \in free : \A other \in free : ip <= other

\* The address process selects for a client: that of its lease, else the
\* next available one.
resolveNext(ls, mac) == nextIP(ls)
resolve(ls, mac) ==
    IF findLease(ls, mac) # 0 THEN ls[findLease(ls, mac)].IP ELSE nextIP(ls)

\* process on a DISCOVER of client m: an OFFER of the selected address and
\* result 1, or no reply and result 0 when there is no address to offer.
processDiscover(m) ==
    /\ xchg[m].stage = "init"
    /\ LET ip == resolve(leases, m)
       IN  IF ip = 0
           THEN /\ dhcpret' = Ret("DISCOVER", m, 0, FALSE, 0, "", 0)
                /\ xchg' = xchg
           ELSE /\ dhcpret' = Ret("DISCOVER", m, 0, FALSE, 1, "OFFER", ip)
                /\ xchg' = [xchg EXCEPT ![m] = [stage |-> "offered",
                                                offer |-> ip, alone |-> TRUE]]
    /\ UNCHANGED <<leases, statics>>
    /\ UNCHANGED outsideDHCP

\* process on the REQUEST that client m makes from its OFFER: the same
\* selection, the lease committed, an ACK and result 1.
processRequest(m) ==
    /\ xchg[m].stage = "offered"
    /\ LET ip == resolve(leases, m)
           i == findLease(leases, m)
       IN  /\ IF ip = 0
              THEN /\ leases' = leases
                   /\ dhcpret' = Ret("REQUEST", m, xchg[m].offer, FALSE, 0, "",
                                     0)
              ELSE /\ leases' =
                        IF i = 0
                        THEN addLease(leases, Lease(ip, m, leaseTime))
                        ELSE IF IsStatic(leases[i]) THEN leases
                        ELSE [leases EXCEPT ![i].Expiry = leaseTime]
                   /\ dhcpret' = Ret("REQUEST", m, xchg[m].offer, FALSE, 1,
                                     "ACK", ip)
    /\ xchg' = [Disturbed(xchg) EXCEPT ![m] = NoXchg]
    /\ UNCHANGED statics
    /\ UNCHANGED outsideDHCP

\* A server created by v4Create with the range of the tests and no lease.
InitDHCP ==
    /\ ParkHTTP
    /\ ParkHosts
    /\ ParkWhois
    /\ ParkStats
    /\ ParkSafeSearch
    /\ ParkMobile
    /\ ParkDNS
    /\ ParkLate
    /\ leases = <<>>
    /\ dhcpret = NoRet
    /\ xchg = [m \in Clients |-> NoXchg]
    /\ statics = {}

NextDHCP ==
    \/ \E ip \in LeaseIPs, mac \in MACs, exp \in CallerExpiries :
          AddStaticLease(Lease(ip, mac, exp))
    \/ \E ip \in LeaseIPs, mac \in MACs : RemoveStaticLease(Lease(ip, mac, 0))
    \/ \E m \in Clients : processDiscover(m)
    \/ \E m \in Clients : processRequest(m)

SpecDHCP == InitDHCP /\ [][NextDHCP]_vars

(***************************************************************************)
(* The stages of the DNS pipeline that answer DDR queries, classify the    *)
(* client and answer for DHCP hosts.  A domain name is the sequence of its *)
(* labels and an address the sequence of its octets.  The stages are       *)
(* exercised by the tests of package dnsforward.                           *)
(***************************************************************************)

resultCodeSuccess == "success"
resultCodeFinish == "finish"

RcodeSuccess == "NOERROR"
RcodeNameError == "NXDOMAIN"

TypeA == "A"
TypeAAAA == "AAAA"
TypeCNAME == "CNAME"
TypeSVCB == "SVCB"
TypePTR == "PTR"

ddrHostFQDN == <<"_dns", "resolver", "arpa">>
ddrTestDomainName == <<"dns", "example", "net">>
defaultLocalDomainSuffix == "lan"

\* A message that is not there, and the replies to a request.
NilMsg == [set |-> FALSE, rcode |-> "", q |-> <<>>, answer |-> <<>>]

makeResponse(req) ==
    [set |-> TRUE, rcode |-> RcodeSuccess, q |-> <<req.Name, req.Qtype>>,
     answer |-> <<>>]

genNXDomain(req) ==
    [set |-> TRUE, rcode |-> RcodeNameError, q |-> <<req.Name, req.Qtype>>,
     answer |-> <<>>]

\* A resource record of a reply.
RR(name, type, data) == [name |-> name, rrtype |-> type, data |-> data]

\* The SVCB record of one transport: priority 1, the server name as target,
\* the ALPN, the port and for DoH the path template.
SVCB(s, req, alpn, port, path) ==
    RR(req.Name, TypeSVCB, <<1, s.ServerName, alpn, port, path>>)

\* One record per encrypted transport the server listens on.
makeDDRResponse(s, req) ==
    IF req.Qtype # TypeSVCB THEN makeResponse(req)
    ELSE [makeResponse(req) EXCEPT !.answer =
            (IF s.portDoT > 0
             THEN <<SVCB(s, req, "dot", s.portDoT, "")>> ELSE <<>>)
            \o (IF s.portDoH > 0
                THEN <<SVCB(s, req, "h2", s.portDoH, "/dns-query{?dns}")>>
                ELSE <<>>)
            \o (IF s.portDoQ > 0
                THEN <<SVCB(s, req, "doq", s.portDoQ, "")>> ELSE <<>>)]

\* What the DDR stage returns and the response it leaves in the context.
ddrQueryAnyName(s, d) ==
    IF ~s.HandleDDR THEN [rc |-> resultCodeSuccess, res |-> d.res]
    ELSE [rc |-> resultCodeFinish, res |-> makeDDRResponse(s, d.req)]
ddrQuery(s, d) ==
    IF ~s.HandleDDR THEN [rc |-> resultCodeSuccess, res |-> d.res]
    ELSE IF d.req.Name = ddrHostFQDN
    THEN [rc |-> resultCodeFinish, res |-> makeDDRResponse(s, d.req)]
    ELSE [rc |-> resultCodeSuccess, res |-> d.res]

\* The addresses that are served locally, among those of four octets.
IsLocallyServed(ip) ==
    /\ Len(ip) = 4
    /\ \/ ip[1] = 10
       \/ ip[1] = 127
       \/ ip[1] = 192 /\ ip[2] = 168
       \/ ip[1] = 169 /\ ip[2] = 254
       \/ ip[1] = 172 /\ ip[2] \in 16..31

\* The host of a question that the DHCP-hosts stage answers for: the
\* question is of type A or AAAA and its name lies under the local suffix.
isDHCPClientHostQ(s, q) ==
    /\ q.Qtype \in {TypeA, TypeAAAA}
    /\ Len(q.Name) >= 2
    /\ q.Name[Len(q.Name)] = s.localDomainSuffix

\* The addresses the table has for a host: one or none.
hostToIP(s, host) == {p[2] : p \in {e \in s.tableHostToIP : e[1] = host}}

\* What the DHCP-hosts stage returns and the response it leaves.
dhcpHostsTableFirst(s, d) ==
    IF ~isDHCPClientHostQ(s, d.req)
    THEN [rc |-> resultCodeSuccess, res |-> d.res]
    ELSE IF hostToIP(s, d.req.Name) = {}
    THEN IF d.isLocalClient
         THEN [rc |-> resultCodeSuccess, res |-> d.res]
         ELSE [rc |-> resultCodeFinish, res |-> genNXDomain(d.req)]
    ELSE [rc |-> resultCodeSuccess,
          res |-> IF d.req.Qtype # TypeA THEN makeResponse(d.req)
                  ELSE [makeResponse(d.req) EXCEPT !.answer =
                          <<RR(d.req.Name, TypeA,
                               CHOOSE ip \in hostToIP(s, d.req.Name) : TRUE)>>]]
dhcpHostsUnknownNX(s, d) ==
    IF ~isDHCPClientHostQ(s, d.req)
    THEN [rc |-> resultCodeSuccess, res |-> d.res]
    ELSE IF ~d.isLocalClient \/ hostToIP(s, d.req.Name) = {}
    THEN [rc |-> resultCodeFinish, res |-> genNXDomain(d.req)]
    ELSE [rc |-> resultCodeSuccess,
          res |-> IF d.req.Qtype # TypeA THEN makeResponse(d.req)
                  ELSE [makeResponse(d.req) EXCEPT !.answer =
                          <<RR(d.req.Name, TypeA,
                               CHOOSE ip \in hostToIP(s, d.req.Name) : TRUE)>>]]
dhcpHosts(s, d) ==
    IF ~isDHCPClientHostQ(s, d.req)
    THEN [rc |-> resultCodeSuccess, res |-> d.res]
    ELSE IF ~d.isLocalClient
    THEN [rc |-> resultCodeFinish, res |-> genNXDomain(d.req)]
    ELSE IF hostToIP(s, d.req.Name) = {}
    THEN [rc |-> resultCodeSuccess, res |-> d.res]
    ELSE [rc |-> resultCodeSuccess,
          res |-> IF d.req.Qtype # TypeA THEN makeResponse(d.req)
                  ELSE [makeResponse(d.req) EXCEPT !.answer =
                          <<RR(d.req.Name, TypeA,
                               CHOOSE ip \in hostToIP(s, d.req.Name) : TRUE)>>]]

\* A stage has run: its result code, and the stage that is next unless the
\* pipeline is finished.
StageDone(rc, next) ==
    /\ dnsrc' = rc
    /\ dnspc' = IF rc = resultCodeFinish THEN "done" ELSE next

processDDRQuery ==
    /\ dnspc = "processDDRQuery"
    /\ dctx' = [dctx EXCEPT !.res = ddrQuery(dnsSrv, dctx).res]
    /\ StageDone(ddrQuery(dnsSrv, dctx).rc, "processDetermineLocal")
    /\ UNCHANGED dnsSrv
    /\ UNCHANGED outsideDNS

processDetermineLocal ==
    /\ dnspc = "processDetermineLocal"
    /\ dctx' = [dctx EXCEPT !.isLocalClient = IsLocallyServed(dctx.addr)]
    /\ StageDone(resultCodeSuccess, "processDHCPHosts")
    /\ UNCHANGED dnsSrv
    /\ UNCHANGED outsideDNS

processDHCPHosts ==
    /\ dnspc = "processDHCPHosts"
    /\ dctx' = [dctx EXCEPT !.res = dhcpHosts(dnsSrv, dctx).res]
    /\ StageDone(dhcpHosts(dnsSrv, dctx).rc, "processRestrictLocal")
    /\ UNCHANGED dnsSrv
    /\ UNCHANGED outsideDNS

\* The reverse names of the tests, the octet each of their labels spells
\* and the names their addresses resolve to.
intPTRQuestion == <<"1", "1", "168", "192", "in-addr", "arpa">>
extPTRQuestion == <<"251", "252", "253", "254", "in-addr", "arpa">>
intPTRAnswer == <<"some", "local-client">>
extPTRAnswer == <<"host1", "example", "net">>

Octet(label) ==
    CASE label = "1" -> 1
      [] label = "168" -> 168
      [] label = "192" -> 192
      [] label = "251" -> 251
      [] label = "252" -> 252
      [] label = "253" -> 253
      [] label = "254" -> 254
      [] OTHER -> -1

\* extractARPASubnet on a full IPv4 reverse name: the address its labels
\* spell backwards, and no address for a name that is no reverse name.
extractARPASubnet(name) ==
    IF /\ Len(name) = 6
       /\ name[5] = "in-addr"
       /\ name[6] = "arpa"
       /\ \A i \in 1..4 : Octet(name[i]) >= 0
    THEN <<Octet(name[4]), Octet(name[3]), Octet(name[2]), Octet(name[1])>>
    ELSE <<>>

\* What a stage leaves: its result code, the response and the address that
\* was reversed.
Left(rc, res, ip) == [rc |-> rc, res |-> res, unreversedReqIP |-> ip]

\* The stage that keeps PTR answers for local addresses from clients that
\* are not local.
restrictLocalAnyClient(s, d) ==
    LET ip == extractARPASubnet(d.req.Name)
    IN  IF d.req.Qtype # TypePTR \/ ip = <<>> \/ ~IsLocallyServed(ip)
        THEN Left(resultCodeSuccess, d.res, d.unreversedReqIP)
        ELSE Left(resultCodeSuccess, d.res, ip)
restrictLocal(s, d) ==
    LET ip == extractARPASubnet(d.req.Name)
    IN  IF d.req.Qtype # TypePTR \/ ip = <<>> \/ ~IsLocallyServed(ip)
        THEN Left(resultCodeSuccess, d.res, d.unreversedReqIP)
        ELSE IF ~d.isLocalClient
        THEN Left(resultCodeFinish, genNXDomain(d.req), d.unreversedReqIP)
        ELSE Left(resultCodeSuccess, d.res, ip)

\* The reply of a resolver that knows the given PTR records.
Exchange(records, req) ==
    IF req.Qtype = TypePTR /\ \E r \in records : r[1] = req.Name
    THEN [makeResponse(req) EXCEPT !.answer =
            <<RR(req.Name, TypePTR,
                 (CHOOSE r \in records : r[1] = req.Name)[2])>>]
    ELSE genNXDomain(req)

\* The stage that resolves a reversed local address with the local
\* resolvers when private reverse DNS is in use, and ends the query with an
\* empty response when it is not.
localPTR(s, d) ==
    IF d.unreversedReqIP = <<>>
    THEN Left(resultCodeSuccess, d.res, d.unreversedReqIP)
    ELSE IF ~s.UsePrivateRDNS
    THEN Left(resultCodeFinish, genNXDomain(d.req), d.unreversedReqIP)
    ELSE IF Exchange(s.localResolvers, d.req).answer # <<>>
    THEN Left(resultCodeSuccess, Exchange(s.localResolvers, d.req),
              d.unreversedReqIP)
    ELSE Left(resultCodeSuccess, d.res, d.unreversedReqIP)

\* The stage that asks the upstream when no stage has answered.
upstream(s, d) ==
    IF d.res.set THEN Left(resultCodeSuccess, d.res, d.unreversedReqIP)
    ELSE Left(resultCodeSuccess, Exchange(s.upstream, d.req),
              d.unreversedReqIP)

\* A stage has run and left its response and address in the context.
Leaves(left, next) ==
    /\ dctx' = [dctx EXCEPT !.res = left.res,
                            !.unreversedReqIP = left.unreversedReqIP]
    /\ StageDone(left.rc, next)
    /\ UNCHANGED dnsSrv
    /\ UNCHANGED outsideDNS

processRestrictLocal ==
    /\ dnspc = "processRestrictLocal"
    /\ Leaves(restrictLocal(dnsSrv, dctx), "processLocalPTR")

processLocalPTR ==
    /\ dnspc = "processLocalPTR"
    /\ Leaves(localPTR(dnsSrv, dctx), "processUpstream")

processUpstream ==
    /\ dnspc = "processUpstream"
    /\ Leaves(upstream(dnsSrv, dctx), "done")

\* The servers and the queries of the tests, and their combinations.
DNSPorts ==
    {<<0, 0, 0>>, <<8043, 0, 0>>, <<0, 8043, 0>>, <<0, 0, 8042>>,
     <<8044, 8043, 0>>}
LocalSuffixes == {defaultLocalDomainSuffix, "custom"}
knownIP == <<1, 2, 3, 4>>
HostTables(suffix) == {{}, {<<<<"example", suffix>>, knownIP>>}}
QueryNames ==
    {ddrHostFQDN, <<"example", "net">>, <<"example", "com">>,
     <<"example", "lan">>, <<"wronghost", "lan">>, <<"example", "custom">>}
QueryTypes == {TypeA, TypeAAAA, TypeCNAME, TypeSVCB}

\* The PTR records that the resolver of the tests answers with.
PTRRecords ==
    {<<extPTRQuestion, extPTRAnswer>>, <<intPTRQuestion, intPTRAnswer>>}
ClientAddrs ==
    {<<192, 168, 0, 1>>, <<250, 249, 0, 1>>, <<1, 2, 3, 4, 5>>, <<>>}

InitDNS ==
    /\ ParkHTTP
    /\ ParkHosts
    /\ ParkWhois
    /\ ParkStats
    /\ ParkSafeSearch
    /\ ParkMobile
    /\ ParkDHCP
    /\ ParkLate
    /\ \E ddr \in BOOLEAN, ports \in DNSPorts, suffix \in LocalSuffixes :
          \E tbl \in HostTables(suffix) :
              dnsSrv = [HandleDDR |-> ddr, ServerName |-> ddrTestDomainName,
                        portDoH |-> ports[1], portDoT |-> ports[2],
                        portDoQ |-> ports[3], localDomainSuffix |-> suffix,
                        tableHostToIP |-> tbl, UsePrivateRDNS |-> TRUE,
                        localResolvers |-> PTRRecords,
                        upstream |-> PTRRecords]
    /\ \E name \in QueryNames, qtype \in QueryTypes, addr \in ClientAddrs :
          dctx = [req |-> [Name |-> name, Qtype |-> qtype], addr |-> addr,
                  isLocalClient |-> FALSE, unreversedReqIP |-> <<>>,
                  res |-> NilMsg]
    /\ dnspc = "processDDRQuery"
    /\ dnsrc = ""

NextDNS ==
    \/ processDDRQuery
    \/ processDetermineLocal
    \/ processDHCPHosts
    \/ processRestrictLocal
    \/ processLocalPTR
    \/ processUpstream

SpecDNS == InitDNS /\ [][NextDNS]_vars

\* The server of the reverse-lookup tests: any setting of private reverse
\* DNS, local resolvers and an upstream that know the records of the tests
\* or none, and a query of any client for a reverse name or a host name.
InitPTR ==
    /\ ParkHTTP
    /\ ParkHosts
    /\ ParkWhois
    /\ ParkStats
    /\ ParkSafeSearch
    /\ ParkMobile
    /\ ParkDHCP
    /\ ParkLate
    /\ \E rdns \in BOOLEAN, loc \in {{}, {<<intPTRQuestion, intPTRAnswer>>}},
          ups \in {{}, PTRRecords} :
          dnsSrv = [HandleDDR |-> FALSE, ServerName |-> ddrTestDomainName,
                    portDoH |-> 0, portDoT |-> 0, portDoQ |-> 0,
                    localDomainSuffix |-> defaultLocalDomainSuffix,
                    tableHostToIP |-> {}, UsePrivateRDNS |-> rdns,
                    localResolvers |-> loc, upstream |-> ups]
    /\ \E name \in {intPTRQuestion, extPTRQuestion, <<"example", "net">>},
          qtype \in {TypePTR, TypeA}, addr \in ClientAddrs :
          dctx = [req |-> [Name |-> name, Qtype |-> qtype], addr |-> addr,
                  isLocalClient |-> FALSE, unreversedReqIP |-> <<>>,
                  res |-> NilMsg]
    /\ dnspc = "processDDRQuery"
    /\ dnsrc = ""

SpecPTR == InitPTR /\ [][NextDNS]_vars

\* ------------------------------------------------------------------------
\* scripts/translations: the download command.  main starts the workers,
\* sends one URL per configured language on an unbuffered channel, closes
\* the channel and returns; the process ends when main returns.
\* ------------------------------------------------------------------------

\* The largest worker count tried.
MaxWorkers == 2

\* The languages a configuration can name.
Languages == {"de", "fr", "ru"}

\* A worker between two URLs, and one that holds the URL of a language.
Idle == [pc |-> "range", lang |-> ""]

Holding(pc, lang) == [pc |-> pc, lang |-> lang]

\* The process is alive until main has returned.
Running == dlMain # "exited"

\* download: uriCh <- uri meets the range of worker w; the channel has no
\* buffer, so the send ends when the worker has received.  The languages
\* are the keys of a map, ranged over in any order.
downloadSend(w, lang) ==
    /\ Running
    /\ dlMain = "download"
    /\ lang \in dlLangs \ dlSent
    /\ dlWorker[w].pc = "range"
    /\ dlSent' = dlSent \cup {lang}
    /\ dlWorker' = [dlWorker EXCEPT ![w] = Holding("getTranslation", lang)]
    /\ dlTaken' = [dlTaken EXCEPT ![lang] = @ + 1]
    /\ UNCHANGED <<dlLangs, dlMain, dlClosed, dlGets, dlFiles>>
    /\ UNCHANGED outsideDownload

\* download: every language is sent; close(uriCh) and return.
downloadClose ==
    /\ Running
    /\ dlMain = "download"
    /\ dlSent = dlLangs
    /\ dlClosed' = TRUE
    /\ dlMain' = "returned"
    /\ UNCHANGED <<dlLangs, dlSent, dlWorker, dlTaken, dlGets, dlFiles>>
    /\ UNCHANGED outsideDownload

\* main: download has returned, and so does main: the process ends with
\* every goroutine that is still running.
mainReturn ==
    /\ dlMain = "returned"
    /\ dlMain' = "exited"
    /\ UNCHANGED <<dlLangs, dlSent, dlClosed, dlWorker, dlTaken, dlGets,
                   dlFiles>>
    /\ UNCHANGED outsideDownload

\* downloadWorker: the GET of the URL; an error is logged and the worker
\* goes on with the next URL.
getTranslation(w, ok) ==
    /\ Running
    /\ dlWorker[w].pc = "getTranslation"
    /\ dlGets' = dlGets \cup {dlWorker[w].lang}
    /\ dlWorker' = [dlWorker EXCEPT
                      ![w] = IF ok THEN Holding("WriteFile", @.lang)
                             ELSE Idle]
    /\ UNCHANGED <<dlLangs, dlMain, dlSent, dlClosed, dlTaken, dlFiles>>
    /\ UNCHANGED outsideDownload

\* downloadWorker: os.WriteFile of <language>.json; an error is logged.
writeFile(w, ok) ==
    /\ Running
    /\ dlWorker[w].pc = "WriteFile"
    /\ dlFiles' = IF ok THEN dlFiles \cup {dlWorker[w].lang} ELSE dlFiles
    /\ dlWorker' = [dlWorker EXCEPT ![w] = Idle]
    /\ UNCHANGED <<dlLangs, dlMain, dlSent, dlClosed, dlTaken, dlGets>>
    /\ UNCHANGED outsideDownload

\* downloadWorker: the range over the closed channel ends.
workerReturn(w) ==
    /\ Running
    /\ dlWorker[w].pc = "range"
    /\ dlClosed
    /\ dlWorker' = [dlWorker EXCEPT ![w] = Holding("returned", "")]
    /\ UNCHANGED <<dlLangs, dlMain, dlSent, dlClosed, dlTaken, dlGets,
                   dlFiles>>
    /\ UNCHANGED outsideDownload

\* main: the download command with a worker count of at least 1 (a smaller
\* count never reaches the workers) and the languages of the configuration; the
\* workers are started before the first send.
InitDownload ==
    /\ ParkHTTP /\ ParkHosts /\ ParkWhois /\ ParkStats
    /\ ParkSafeSearch /\ ParkMobile /\ ParkDHCP /\ ParkDNS
    /\ ParkPostInstall
    /\ dlLangs \in SUBSET Languages
    /\ dlMain = "download"
    /\ dlSent = {}
    /\ dlClosed = FALSE
    /\ \E n \in 1..MaxWorkers : dlWorker = [w \in 1..n |-> Idle]
    /\ dlTaken = [l \in dlLangs |-> 0]
    /\ dlGets = {}
    /\ dlFiles = {}

NextDownload ==
    \/ \E w \in DOMAIN dlWorker, lang \in Languages : downloadSend(w, lang)
    \/ downloadClose
    \/ mainReturn
    \/ \E w \in DOMAIN dlWorker, ok \in BOOLEAN : getTranslation(w, ok)
    \/ \E w \in DOMAIN dlWorker, ok \in BOOLEAN : writeFile(w, ok)
    \/ \E w \in DOMAIN dlWorker : workerReturn(w)

SpecDownload == InitDownload /\ [][NextDownload]_vars

\* ------------------------------------------------------------------------
\* postInstall with the request's Host header, scheme, path and query and
\* the HTTPS port of the configuration spelled out.
\* ------------------------------------------------------------------------
defaultHTTPSPort == 443

missingPort == "missing port in address"
tooManyColons == "too many colons in address"

\* strconv.Itoa for a number that is not negative
RECURSIVE Itoa(_)
Itoa(n) ==
    IF n < 10 THEN <<Digits[n + 1]>>
    ELSE Itoa(n \div 10) \o <<Digits[(n % 10) + 1]>>

\* bytealg.LastIndexByteString and IndexByteString from index `from` on,
\* both 0-based, -1 when the byte is absent
LastIndex(s, c) ==
    IF \E i \in 1..Len(s) : s[i] = c
    THEN (CHOOSE i \in 1..Len(s) :
            s[i] = c /\ \A j \in (i + 1)..Len(s) : s[j] # c) - 1
    ELSE -1

IndexFrom(s, from, c) == IndexByte(SubSeq(s, from + 1, Len(s)), c)

\* net.SplitHostPort
AddrError(e) == [host |-> <<>>, port |-> <<>>, err |-> e]

SplitHostPort(hostport) ==
    LET i == LastIndex(hostport, ":")
        bracket == hostport[1] = "["
        end == IndexByte(hostport, "]")
        j == IF bracket THEN 1 ELSE 0
        k == IF bracket THEN end + 1 ELSE 0
        host == IF bracket THEN SubSeq(hostport, 2, end)
                ELSE SubSeq(hostport, 1, i)
    IN IF i < 0 THEN AddrError(missingPort)
       ELSE IF bracket /\ end < 0 THEN AddrError("missing ']' in address")
       ELSE IF bracket /\ end + 1 = Len(hostport) THEN AddrError(missingPort)
       ELSE IF bracket /\ end + 1 # i
       THEN (IF hostport[end + 2] = ":" THEN AddrError(tooManyColons)
             ELSE AddrError(missingPort))
       ELSE IF ~bracket /\ IndexByte(host, ":") >= 0
       THEN AddrError(tooManyColons)
       ELSE IF IndexFrom(hostport, j, "[") >= 0
       THEN AddrError("unexpected '[' in address")
       ELSE IF IndexFrom(hostport, k, "]") >= 0
       THEN AddrError("unexpected ']' in address")
       ELSE [host |-> host, port |-> SubSeq(hostport, i + 2, Len(hostport)),
             err |-> ""]

\* url.URL.String for a URL with a scheme, a host, a path that is empty or
\* starts with a slash and needs no escaping, and a raw query
URLString(scheme, host, path, rawQuery) ==
    scheme \o <<":", "/", "/">> \o host \o path
        \o (IF rawQuery = <<>> THEN <<>> ELSE <<"?">> \o rawQuery)

SchemeHTTPS == <<"h", "t", "t", "p", "s">>

\* handleHTTPSRedirect appending the HTTPS port whatever it is.
hostPortAlways(host, port) == JoinHostPort(host, Itoa(port))

\* handleHTTPSRedirect: the host of the redirect URL.
hostPort(host, port) ==
    IF port # defaultHTTPSPort THEN JoinHostPort(host, Itoa(port)) ELSE host

\* What postInstall writes and whether it calls the handler.
Answer(code, location) ==
    [code |-> code, Location |-> location, handler |-> FALSE]

Handled == [code |-> StatusOK, Location |-> <<>>, handler |-> TRUE]

\* handleHTTPSRedirect: ok with nothing written, or the answer written.
Continue == [ok |-> TRUE, resp |-> Answer(StatusNone, <<>>)]

Stop(resp) == [ok |-> FALSE, resp |-> resp]

httpsRedirect(web, r) ==
    LET split == SplitHostPort(r.Host)
        host == IF split.err = "" THEN split.host ELSE r.Host
    IN IF ~web.httpsServer THEN Continue
       ELSE IF split.err # "" /\ split.err # missingPort
       THEN Stop(Answer(StatusBadRequest, <<>>))
       ELSE IF ~r.TLS /\ web.forceHTTPS
       THEN Stop(Answer(StatusTemporaryRedirect,
                        URLString(SchemeHTTPS, hostPort(host, web.PortHTTPS),
                                  r.Path, r.RawQuery)))
       ELSE Continue

\* "/install.html"
InstallHtml == PathInstallHtml \o <<"t", "m", "l">>

\* postInstall around a handler that answers 200.
postInstallServe(ctx, r) ==
    IF NeedsInstall(ctx.firstRun, r.Path) THEN Answer(StatusFound, InstallHtml)
    ELSE LET redirect == httpsRedirect(ctx, r)
         IN IF ~redirect.ok THEN redirect.resp ELSE Handled

\* The Host headers of the requests: "h", "h:80", "h:80:1", "[::1]:80",
\* "[::1]" and "[h".
HostHeaders ==
    { <<"h">>, <<"h", ":", "8", "0">>, <<"h", ":", "8", "0", ":", "1">>,
      <<"[", ":", ":", "1", "]", ":", "8", "0">>,
      <<"[", ":", ":", "1", "]">>, <<"[", "h">> }

\* The HTTPS ports of the configurations.
PortsHTTPS == {defaultHTTPSPort, 8443}

\* The queries of the requests: none, and "a=1".
RawQueries == {<<>>, <<"a", "=", "1">>}

\* One request arrives at postInstall.
servePostInstall ==
    /\ piResp.code = StatusNone
    /\ piResp' = postInstallServe(piCtx, piReq)
    /\ UNCHANGED <<piCtx, piReq>>
    /\ UNCHANGED outsidePostInstall

InitPostInstall ==
    /\ ParkHTTP /\ ParkHosts /\ ParkWhois /\ ParkStats
    /\ ParkSafeSearch /\ ParkMobile /\ ParkDHCP /\ ParkDNS
    /\ ParkDownload
    /\ piCtx \in [firstRun : BOOLEAN, httpsServer : BOOLEAN,
                  forceHTTPS : BOOLEAN, PortHTTPS : PortsHTTPS]
    /\ piReq \in [Host : HostHeaders, TLS : BOOLEAN,
                  Path : {PathStatus, PathInstallHtml},
                  RawQuery : RawQueries]
    /\ piResp = Answer(StatusNone, <<>>)

NextPostInstall == servePostInstall

SpecPostInstall == InitPostInstall /\ [][NextPostInstall]_vars

\* The control layer starts with the other parts at rest.
InitControl ==
    InitHTTP /\ ParkHosts /\ ParkWhois /\ ParkStats /\ ParkNew

SpecHTTP == InitControl /\ [][NextHTTP]_vars

(***************************************************************************)
(* Properties of the HTTP control layer.                                   *)
(***************************************************************************)
MutatingMethods == {MethodPost, MethodPut, MethodDelete}

\* The method the route of a dispatched request was registered with.
RegMethod(r) == IF rpc[r] = "idle" THEN "" ELSE RouteOf(rpath[r])

\* The requests whose handler body is executing.
InHandler == {r \in Reqs : rpc[r] = "handler"}

\* C1: at most one handler registered with POST, PUT or DELETE executes at
\* any time; such a handler runs holding the control lock, taken after the
\* method check and released when the handler returns; a handler registered
\* with GET never takes the control lock.
C1_ControlLockSerializes ==
    /\ Cardinality({r \in InHandler : RegMethod(r) \in MutatingMethods}) <= 1
    /\ \A r \in Reqs :
        /\ (r \in InHandler /\ RegMethod(r) \in MutatingMethods)
              => controlLock = r
        /\ controlLock = r
              => /\ r \in InHandler
                 /\ "ensure" \in rran[r]
                 /\ rmethod[r] = RegMethod(r)
        /\ RegMethod(r) \notin MutatingMethods
              => (controlLock # r /\ "Lock" \notin rran[r])
        /\ (rpc[r] = "done" /\ rresp[r] = StatusOK
              /\ RegMethod(r) \in MutatingMethods) => "Lock" \in rran[r]

\* A GET handler executes while a mutating handler holds the control lock.
C1_Witness ==
    \E r1, r2 \in InHandler :
        /\ RegMethod(r1) = MethodGet
        /\ RegMethod(r2) \in MutatingMethods
        /\ controlLock = r2

\* The path is neither under "/install." nor under "/assets/".
NotInstallPath(path) ==
    /\ ~HasPrefix(path, PrefixInstall)
    /\ ~HasPrefix(path, PrefixAssets)

\* C2: while the first-run flag is true, a request that goes through
\* postInstall with a path under neither "/install." nor "/assets/" gets a
\* 302 to /install.html and none of the inner steps runs for it; while the
\* flag is false postInstall redirects no request to /install.html.
C2_FirstRunGate ==
    /\ [][\A r \in Reqs :
            (rpc[r] = "postInstall" /\ rpc'[r] # "postInstall") =>
                IF firstRun /\ NotInstallPath(rpath[r])
                THEN /\ rresp'[r] = StatusFound
                     /\ rloc'[r] = "/install.html"
                     /\ rpc'[r] = "done"
                ELSE /\ rresp'[r] = StatusNone
                     /\ rpc'[r] = "handleHTTPSRedirect"]_vars
    /\ [](\A r \in Reqs : rresp[r] = StatusFound =>
            (rran[r] = {} /\ rpc[r] = "done"))
    /\ [][\A r \in Reqs :
            (rresp'[r] = StatusFound /\ rresp[r] # StatusFound) => firstRun]_vars

\* One request was redirected to /install.html during the first run, and
\* after installation another request with the same kind of path reached
\* its handler.
C2_Witness ==
    \E r1, r2 \in Reqs :
        /\ rresp[r1] = StatusFound
        /\ rpath[r1] = PathInstaller
        /\ ~firstRun
        /\ NotInstallPath(rpath[r2])
        /\ rresp[r2] = StatusOK

(***************************************************************************)
(* Properties of the tables a reload builds.                               *)
(***************************************************************************)
\* The lines updateHosts reads, in reading order.
RECURSIVE LinesOfFiles(_)
LinesOfFiles(files) ==
    IF files = <<>> THEN <<>>
    ELSE (IF Head(files).opens THEN Head(files).lines ELSE <<>>)
            \o LinesOfFiles(Tail(files))

LinesRead == LinesOfFiles(<<hostsFile>> \o dirFiles)

\* The (host, IP) pairs of a line: none unless the line has two fields and
\* its first field is an IP address.
PairsOfLine(line) ==
    LET fields == Fields(line)
    IN IF Len(fields) < 2 \/ ParseIP(fields[1]) = NilIP THEN <<>>
       ELSE LET hosts == parseHostsLine(Tail(fields))
            IN [i \in 1..Len(hosts) |->
                    [host |-> hosts[i], ip |-> ParseIP(fields[1])]]

RECURSIVE PairsOfLines(_)
PairsOfLines(lines) ==
    IF lines = <<>> THEN <<>>
    ELSE PairsOfLine(Head(lines)) \o PairsOfLines(Tail(lines))

\* The (host, IP) pairs of the files, in the order they are read.
PairsRead == PairsOfLines(LinesRead)

NoRepeats(q) == \A i, j \in 1..Len(q) : i # j => q[i] # q[j]

\* C4: after a reload no host's IP list in the forward table holds the
\* same IP address twice.
C4_NoDuplicateIPs ==
    \A host \in DOMAIN table.m : NoRepeats(table.m[host])

\* C5: after a reload the forward table's list for a host holds every IP
\* address of every line that names the host.
C5_ForwardHasEveryIP ==
    upc = "return" =>
        \A k \in 1..Len(PairsRead) :
            /\ PairsRead[k].host \in DOMAIN table.m
            /\ Contains(table.m[PairsRead[k].host], PairsRead[k].ip)

\* The position at which the pair of host and the address printed as ipStr
\* is first read.
FirstSeen(host, ipStr) ==
    CHOOSE k \in 1..Len(PairsRead) :
        /\ PairsRead[k].host = host
        /\ IPString(PairsRead[k].ip) = ipStr
        /\ \A j \in 1..(k - 1) :
            ~(PairsRead[j].host = host /\ IPString(PairsRead[j].ip) = ipStr)

\* C6: after a reload the reverse table's list for an IP holds every host
\* name parsed for that IP exactly once, in the order of first appearance.
C6_ReverseFirstSeenOrder ==
    upc = "return" =>
        LET rev == tableReverse.m
            pairs == {PairsRead[k] : k \in 1..Len(PairsRead)}
        IN /\ DOMAIN rev = {IPString(pr.ip) : pr \in pairs}
           /\ \A ipStr \in DOMAIN rev :
                /\ NoRepeats(rev[ipStr])
                /\ {rev[ipStr][i] : i \in 1..Len(rev[ipStr])}
                      = {pr.host : pr \in {x \in pairs : IPString(x.ip) = ipStr}}
                /\ \A i, j \in 1..Len(rev[ipStr]) :
                      i < j => FirstSeen(rev[ipStr][i], ipStr)
                                  < FirstSeen(rev[ipStr][j], ipStr)

\* Two lines name host2 and then host1 for 10.0.0.1: the list is host2,
\* host1.
C6_Witness ==
    /\ upc = "return"
    /\ hostsFile = File(<<LineD, LineC>>)
    /\ Txt10 \in DOMAIN tableReverse.m
    /\ tableReverse.m[Txt10] = <<Host2, Host1>>

(***************************************************************************)
(* Properties of reloads, readers and the watcher goroutines.              *)
(***************************************************************************)
\* C3: a reader holding the read lock sees a forward and a reverse table of
\* one and the same reload, a reload that has finished filling its maps;
\* the tables it found when it took the lock stay those of the container.
C3_ReadersSeeOneReload ==
    /\ lockR = Cardinality({r \in Readers : rdpc[r] \in ReadOps})
    /\ ~(lockW /\ lockR > 0)
    /\ lockR > 0 =>
        /\ table.gen = tableReverse.gen
        /\ Loading => (table.gen # nReloads /\ tableReverse.gen # nReloads)
        /\ \A r \in Readers : rdseen[r] # 0 => rdseen[r] = table.gen

\* A reader reads the tables of the second reload under the read lock while
\* watcherLoop's reload fills its maps.
C3_Witness ==
    \E r \in Readers :
        /\ rdseen[r] = 2
        /\ upc = "loadDirs"
        /\ ucaller = "watcherLoop"
        /\ newTable.gen = 3

\* C7: every write event watcherLoop takes in its outer select leads to
\* exactly one updateHosts call, made after the events queued behind it were
\* drained and the channel was found empty; the reloads of the watcher never
\* outnumber the write events delivered.
C7_OneReloadPerTakenEvent ==
    /\ [](/\ nWlReloads = nTaken - (IF wlPc = "drain" THEN 1 ELSE 0)
          /\ nSent = nTaken + nDrained + Len(onlyWritesChan)
          /\ nSent <= nEvents
          /\ nWlReloads <= nEvents
          /\ nReloads = 1 + (IF phase = "inited" THEN 0 ELSE 1) + nWlReloads
          /\ wlPc = "updateHosts" => roundDrained >= roundQueued)
    /\ [][(wlPc = "drain" /\ wlPc' # "drain") =>
            /\ onlyWritesChan = <<>>
            /\ roundDrained >= roundQueued
            /\ wlPc' = "updateHosts"
            /\ nWlReloads' = nWlReloads + 1
            /\ nReloads' = nReloads + 1]_vars

\* Three write events were delivered in a burst, and watcherLoop has made
\* one reload for them.
C7_Witness ==
    /\ nEvents = 3
    /\ nSent = 3
    /\ nTaken = 1
    /\ nDrained = 2
    /\ nWlReloads = 1
    /\ wlPc = "select"
    /\ upc = "idle"

\* C8: a reload calls the registered callback exactly once, after both new
\* tables are in place and the write lock is released; with no callback
\* registered it returns without a call.
C8_NotifyOnceAfterSwap ==
    /\ [](/\ upc = "onChanged" =>
                /\ ~lockW
                /\ ucalls = 1
                /\ table.gen = nReloads
                /\ tableReverse.gen = nReloads
          /\ upc = "return" =>
                /\ ucalls <= 1
                /\ table.gen = nReloads
                /\ tableReverse.gen = nReloads
          /\ upc \in {"load", "loadDirs", "Lock", "setTable",
                      "setTableReverse", "Unlock", "notify"} => ucalls = 0)
    /\ [][(upc = "notify" /\ upc' # "notify") =>
            IF onChanged
            THEN upc' = "onChanged" /\ ucalls' = 1
            ELSE upc' = "return" /\ ucalls' = 0]_vars
    /\ [][(upc = "onChanged" /\ upc' # "onChanged") =>
            (upc' = "return" /\ ucalls' = 1)]_vars

\* The callback of a watcherLoop reload has been called and has returned.
C8_Witness ==
    /\ upc = "return"
    /\ ucaller = "watcherLoop"
    /\ ucalls = 1
    /\ table.gen = 3

\* C9: after Close on a started container onlyWrites and watcherLoop both
\* terminate; onlyWritesChan is closed at most once, by onlyWrites.
C9_CloseTerminates ==
    /\ [](nChanCloses <= 1)
    /\ [][nChanCloses' # nChanCloses => (owPc = "recv" /\ owPc' = "done")]_vars
    /\ (watcher = "closed" /\ phase = "started")
            ~> (owPc = "done" /\ wlPc = "done")

(***************************************************************************)
(* Properties of Whois.Begin.                                              *)
(***************************************************************************)
\* The next-eligible second the cache holds for ip, NoTime if it has none.
EligibleAt(cache, ip) ==
    LET S == {i \in 1..Len(cache) : cache[i].key = ip}
    IN IF S = {} THEN NoTime ELSE Uint64(cache[CHOOSE i \in S : TRUE].val)

\* C10: with Begin calls made one after another, an address recorded at
\* second t has t + 3600 in the cache; a Begin for it at a second before
\* t + 3600 returns with the queue and the cache entries as they were; a
\* Begin at t + 3600 or later, or for an address with no entry, records its
\* own second plus 3600 and sends the address unless the queue is full; two
\* enqueues of an address whose entry was not evicted in between are at least
\* 3600 seconds apart.
C10_BeginOncePerTTL ==
    /\ [](\A ip \in WhoisIPs :
            EligibleAt(ipAddrs, ip) =
                IF recAt[ip] = NoTime THEN NoTime ELSE recAt[ip] + 3600)
    /\ [][\A c \in Callers : (wpc[c] = "Get" /\ wpc'[c] # "Get") =>
            IF recAt[wip[c]] # NoTime /\ wnow[c] < recAt[wip[c]] + 3600
            THEN /\ wpc'[c] = "idle"
                 /\ ipChan' = ipChan
                 /\ recAt' = recAt
                 /\ \A ip \in WhoisIPs :
                        EligibleAt(ipAddrs', ip) = EligibleAt(ipAddrs, ip)
            ELSE wpc'[c] = "Set"]_vars
    /\ [][\A c \in Callers : (wpc[c] = "Set" /\ wpc'[c] # "Set") =>
            /\ wpc'[c] = "send"
            /\ recAt'[wip[c]] = wnow[c]
            /\ EligibleAt(ipAddrs', wip[c]) = wnow[c] + 3600]_vars
    /\ [][\A c \in Callers : (wpc[c] = "send" /\ wpc'[c] # "send") =>
            IF Len(ipChan) < IPChanCap
            THEN /\ ipChan' = Append(ipChan, wip[c])
                 /\ \/ lastEnq[wip[c]] = NoTime
                    \/ wnow[c] - lastEnq[wip[c]] >= 3600
            ELSE ipChan' = ipChan]_vars

\* An address was recorded and enqueued at second t; a Begin for it at
\* second t + 3600 has recorded it anew and finds room in the queue.
C10_Witness ==
    \E c \in Callers :
        /\ wpc[c] = "send"
        /\ lastEnq[wip[c]] # NoTime
        /\ wnow[c] = lastEnq[wip[c]] + 3600
        /\ recAt[wip[c]] = wnow[c]
        /\ Len(ipChan) < IPChanCap

\* The next step of a call of Begin that is in progress.
BeginStep(c) == BeginGet(c) \/ BeginSet(c) \/ BeginSend(c)

\* C11: Begin never blocks its caller, whatever the worker does: a call in
\* progress can always take its next step; the queue never holds more than
\* its capacity (255 in initWhois, IPChanCap here); a send that finds the
\* queue full returns to the caller, which gets no error value, and leaves
\* the queued addresses and their order as they were.
C11_BeginNeverBlocks ==
    /\ [](Len(ipChan) <= IPChanCap)
    /\ [](\A c \in Callers : wpc[c] # "idle" => ENABLED BeginStep(c))
    /\ [][\A c \in Callers : (wpc[c] = "send" /\ wpc'[c] # "send") =>
            /\ wpc'[c] = "idle"
            /\ Len(ipChan) >= IPChanCap => ipChan' = ipChan
            /\ Len(ipChan) < IPChanCap => ipChan' = Append(ipChan, wip[c])]_vars

\* Begin reaches its send while the queue is full and the worker is busy
\* with an earlier address.
C11_Witness ==
    \E c \in Callers :
        /\ wpc[c] = "send"
        /\ Len(ipChan) = IPChanCap
        /\ wkIP # NoIP

(***************************************************************************)
(* Properties of queryAll.                                                 *)
(***************************************************************************)
\* "whois.arin.net:43", "a.b:43" and "w.x:44"
AddrArin == <<"w", "h", "o", "i", "s", ".", "a", "r", "i", "n", ".", "n", "e", "t",
      ":", "4", "3">>
AddrAB == <<"a", ".", "b", ":", "4", "3">>
AddrWX == <<"w", ".", "x", ":", "4", "4">>

\* The server a response redirects to: its whois or referralserver field in
\* lower case, with port 43 when it names none; NoAddr for a response
\* without such a field.
NoAddr == <<>>
RedirectOf(resp) ==
    CASE resp = RespRedir -> AddrAB
      [] resp = RespReferral -> AddrWX
      [] OTHER -> NoAddr

\* C12: a call of queryAll makes at most 5 queries and has returned when the
\* fifth is answered; the first query goes to whois.arin.net:43 and every
\* query goes to the server the call holds; a failing query ends the call
\* with its error, a response without a redirect field ends it with that
\* response, a response with one sends the next query to the server it
\* names, port 43 added when it names none, and the fifth such response
\* ends the call with the redirect-loop error, which is returned in no
\* other case; a call that has returned makes no further query.
C12_QueryAllRedirects ==
    /\ [](Len(qsent) <= 5)
    /\ [](Len(qsent) = 5 => qres # NoResult)
    /\ [](Len(qsent) >= 1 => qsent[1].server = AddrArin)
    /\ []((qtarget # <<>> /\ qres = NoResult /\ qsent = <<>>) =>
            qserver = AddrArin)
    /\ [][(qsent' # qsent /\ qsent' # <<>>) =>
            /\ qres = NoResult
            /\ qsent' = Append(qsent, qsent'[Len(qsent')])
            /\ qsent'[Len(qsent')].server = qserver
            /\ \E r \in QueryResults :
                IF r.kind = "err" \/ RedirectOf(r.resp) = NoAddr
                THEN qres' = r
                ELSE IF Len(qsent') = 5
                THEN qres' = Err(ErrRedirectLoop)
                ELSE qres' = NoResult /\ qserver' = RedirectOf(r.resp)]_vars
    /\ [][(qres'.err = ErrRedirectLoop /\ qres.err # ErrRedirectLoop) =>
            /\ Len(qsent') = 5
            /\ \A i \in 2..5 : qsent'[i].server \in {AddrAB, AddrWX}]_vars

\* A call has made five queries, each but the first to the server of a
\* redirect, one of them to a server whose port was added, and has returned
\* the redirect-loop error.
C12_Witness ==
    /\ Len(qsent) = 5
    /\ qres = Err(ErrRedirectLoop)
    /\ \E i \in 2..5 : qsent[i].server = AddrAB
    /\ \E i \in 2..5 : qsent[i].server = AddrWX

(***************************************************************************)
(* Properties of whoisParse.                                               *)
(***************************************************************************)
\* C13: the city, the country and the organization name of the map that
\* whoisParse returns have at most 250 characters each, for every text.
C13_ValuesAtMost250 ==
    \A k \in {"city", "country", "orgname"} \cap DOMAIN pm :
        Len(pm[k]) <= 250

(***************************************************************************)
(* Properties of workerLoop.                                               *)
(***************************************************************************)
\* The record a response gives: a city for RespCity, nothing for RespNone.
InfoOf(resp) ==
    [City |-> IF resp = RespCity THEN <<"R", "o", "m", "e">> ELSE <<>>,
     Country |-> <<>>,
     Orgname |-> <<>>]

HasField(info) ==
    info.City # <<>> \/ info.Country # <<>> \/ info.Orgname # <<>>

\* C14: every record the clients hold has a field that is not empty; when
\* the worker is done with an address whose lookup failed or whose response
\* gives a record of empty fields, the clients' records are as they were,
\* and otherwise the record of the response is set under the string form of
\* the address and nothing else changes; in both cases the worker goes back
\* to receive, and it can receive whenever an address is queued.
C14_WorkerSetsOnlyInfo ==
    /\ [](\A id \in DOMAIN whoisInfo : HasField(whoisInfo[id]))
    /\ [][(wkRes # NoResult /\ wkRes' = NoResult) =>
            /\ wkIP' = NoIP
            /\ IF wkRes.kind = "err" \/ ~HasField(InfoOf(wkRes.resp))
               THEN whoisInfo' = whoisInfo
               ELSE /\ DOMAIN whoisInfo' = DOMAIN whoisInfo \cup {IPString(wkIP)}
                    /\ whoisInfo'[IPString(wkIP)] = InfoOf(wkRes.resp)
                    /\ \A id \in DOMAIN whoisInfo \ {IPString(wkIP)} :
                            whoisInfo'[id] = whoisInfo[id]]_vars
    /\ [][whoisInfo' # whoisInfo => (wkRes # NoResult /\ wkRes' = NoResult)]_vars
    /\ []((wkIP = NoIP /\ ipChan # <<>>) => ENABLED workerLoopRecv)

\* A client has a record, and the worker holds a failed lookup while another
\* address is queued.
C14_Witness ==
    /\ DOMAIN whoisInfo # {}
    /\ wkIP # NoIP
    /\ wkRes.kind = "err"
    /\ ipChan # <<>>

(***************************************************************************)
(* Properties of the stats configuration handlers.                         *)
(***************************************************************************)
\* The longest interval the revision supports, in half hours: 365 days in
\* part_001, 366 days in http.go.
MaxSpan == IF revision = RevNew THEN 17520 ELSE 17568

\* An interval of a request below one hour or above the longest one.
OutOfRange(f) ==
    f.hh < 2 \/ f.hh > MaxSpan \/ (f.hh = MaxSpan /\ f.hms > 0)

\* A list of ignored names with an empty or a repeated name.
Malformed(names) ==
    \/ \E i \in 1..Len(names) : names[i] = ""
    \/ \E i, j \in 1..Len(names) : i # j /\ names[i] = names[j]

ClientError(resp) == resp.code >= 400 /\ resp.code <= 499

\* What a GET of the v2 configuration can answer in the current state.
InfoV2 ==
    {IF revision = RevNew THEN configRespV2(vals) ELSE configRespV2Http(vals) :
        vals \in Values(ignored)}

\* The writer is about to receive the request that sreq' holds.
Arrives == spc["writer"] = "idle" /\ spc'["writer"] # "idle"

\* The handler that holds the lock stores and answers.
Stores == spc["writer"] = "locked" /\ spc'["writer"] # "locked"

C16_MalformedIgnoredKeepsConfig ==
    [][(Stores /\ sreq.kind = "PUT" /\ Malformed(sreq.ignored)) =>
            /\ ClientError(sresp'["writer"])
            /\ Config' = Config]_vars

\* C17: when a handler that changes the configuration is done, configModified
\* has been called once if the request was answered with success and not at
\* all if it was answered with an error; it is called only after the handler
\* has stored the configuration.
C17_ModifiedOncePerCommit ==
    /\ [](spc["writer"] = "done" =>
            nmod = IF sresp["writer"].code = StatusOK THEN 1 ELSE 0)
    /\ [][nmod' > nmod => spc["writer"] \in {"locked", "deferred"}]_vars

\* C18: when a PUT of the v2 configuration is answered with success, a GET
\* answers the enabled flag, the interval and the ignored list of the PUT,
\* whatever was stored before.
C18_GetReturnsPut ==
    [][(Stores /\ sreq.kind = "PUT" /\ sresp'["writer"].code = StatusOK) =>
            \A info \in InfoV2' :
                /\ info.enabled = sreq.enabled
                /\ info.interval = sreq.interval
                /\ info.ignored = sreq.ignored]_vars

\* C19: a POST of the legacy configuration that does not decode, or whose
\* number of days is not supported, is answered with a client error, of
\* body "Unsupported interval" for the number of days; limitIvl is as
\* before, the lock is as before, and the process goes on.
C19_LegacyPostRejected ==
    [][(Arrives /\ sreq'.kind = "POST"
            /\ (~sreq'.decodes \/ ~checkInterval(sreq'.days))) =>
            /\ ClientError(sresp'["writer"])
            /\ sreq'.decodes => sresp'["writer"].body = "Unsupported interval"
            /\ limitIvl' = limitIvl
            /\ statsLock' = statsLock
            /\ ~crashed']_vars

\* C20: a PUT of the v2 configuration whose enabled is null, with a
\* supported interval and a well-formed ignored list, is answered with a
\* client error of body "enabled is null", and enabled, limitIvl and ignored
\* are as before.
C20_NullEnabledRejected ==
    [][(Stores /\ sreq.kind = "PUT" /\ sreq.enabled = "NBNull"
            /\ ~Malformed(sreq.ignored)) =>
            /\ ClientError(sresp'["writer"])
            /\ sresp'["writer"].body = "enabled is null"
            /\ Config' = Config]_vars

(***************************************************************************)
(* Properties of reads and writes of the stats configuration.              *)
(***************************************************************************)
\* The bodies a GET of request req answers for the configuration c.
AnswersOf(c, req) ==
    IF req.kind = "GETV2"
    THEN {InfoV2Resp(revision, c.enabled, c.limitIvl, vals) :
            vals \in Values(c.ignored)}
    ELSE {configResp(IF revision = RevNew
                     THEN StatsInfoDays(c.limitIvl, c.enabled, c.enabled)
                     ELSE StatsInfoDaysHttp(c.limitIvl, c.enabled))}

\* C21: a GET of the legacy or of the v2 configuration that runs while
\* handlers store a configuration answers with the values of one stored
\* configuration, the one before a write or the one after it, and never
\* with a field of one and a field of the other.
C21_ReadSeesOneConfig ==
    rwpc["get"] = "unlock" =>
        \E c \in stored : rwresp.body \in AnswersOf(c, rwreq["get"])

(***************************************************************************)
(* Properties of the safe-search handlers.                                 *)
(***************************************************************************)
\* Task t makes the store of its handler in this step.
SSStores(t) == sspc[t] = "set" /\ sspc'[t] # "set"

\* The record a store of request req is to leave.
SSWanted(conf, req) ==
    CASE req.op = "enable" -> [conf EXCEPT !.Enabled = TRUE]
      [] req.op = "disable" -> [conf EXCEPT !.Enabled = FALSE]
      [] req.op = "settings" ->
            SafeSearchConfig(req.body.Enabled, req.body.Bing,
                             req.body.YouTube)

\* C22: enable and disable store their value in the enabled flag and
\* leave every other field of the record as it is, settings replaces the
\* whole record by the one of its body, no other step of any handler
\* changes the record, and status answers with the record that is stored
\* when it reads it.
C22_StatusReturnsRecord ==
    [][/\ \A t \in SSTasks :
            SSStores(t) => safeSearchConf' = SSWanted(safeSearchConf, ssreq[t])
       /\ (\A t \in SSTasks : ~SSStores(t)) => safeSearchConf' = safeSearchConf
       /\ \A t \in SSTasks :
            sspc[t] = "read" /\ sspc'[t] # "read" =>
                sslocal'[t] = safeSearchConf
       /\ \A t \in SSTasks :
            sspc'[t] = "done" /\ ssreq'[t].op = "status" =>
                /\ ssresp'[t].code = StatusOK
                /\ sspc[t] # "done" => ssresp'[t].body = sslocal[t]]_vars

\* A status request is answered with the enabled flag set while the
\* request that enabled safe search is done, the record having a service
\* flag that differs from it.
C22_Witness ==
    \E t, u \in SSTasks :
        /\ sspc[t] = "done" /\ ssreq[t].op = "status"
        /\ sspc[u] = "done" /\ ssreq[u].op = "enable"
        /\ ssresp[t].body = SafeSearchConfig(TRUE, FALSE, TRUE)

SSMutating == {"enable", "disable", "settings"}

\* C23: an enable, a disable and a settings request whose body decodes call
\* ConfigModified once, not before the record is stored and the lock
\* released and while the handler holds no lock, and are answered with
\* success; a settings request whose body does not decode is answered
\* with 400 at once, changes no record and calls nothing.
C23_ModifiedOnceAfterUnlock ==
    [][\A t \in SSTasks :
        /\ ssmod'[t] > ssmod[t] =>
            /\ ssmod[t] = 0 /\ ssmod'[t] = 1
            /\ confLock.w # t /\ t \notin confLock.r
            /\ ssreq[t].op \in SSMutating /\ ssreq[t].decodes
        /\ sspc'[t] \in {"lock", "set", "unlock"} => ssmod'[t] = 0
        /\ sspc'[t] = "done" /\ ssreq'[t].op \in SSMutating
                /\ ssreq'[t].decodes =>
            ssmod'[t] = 1 /\ ssresp'[t].code = StatusOK
        /\ sspc'[t] = "done" /\ ~ssreq'[t].decodes =>
            ssmod'[t] = 0 /\ ssresp'[t].code = StatusBadRequest
        /\ sspc[t] = "idle" /\ sspc'[t] # "idle" /\ ~ssreq'[t].decodes =>
            sspc'[t] = "done" /\ safeSearchConf' = safeSearchConf]_vars

\* One settings request is done after its call of ConfigModified, another
\* is answered with 400.
C23_Witness ==
    \E t, u \in SSTasks :
        /\ sspc[t] = "done" /\ ssreq[t].op = "settings" /\ ssreq[t].decodes
        /\ ssmod[t] = 1 /\ ssresp[t].code = StatusOK
        /\ sspc[u] = "done" /\ ~ssreq[u].decodes
        /\ ssresp[u].code = StatusBadRequest

(***************************************************************************)
(* Properties of the mobile-configuration handlers.                        *)
(***************************************************************************)
\* C24: a request with a host and with a client_id that is no client
\* identifier is answered with a 4xx status and the message of
\* ValidateClientID and with no profile; a request with no host is
\* answered with 500 and the message of errEmptyHost.
C24_BadClientIDIsClientError ==
    mcresp # NoMobileResp =>
        /\ (/\ mcreq.host # <<>>
            /\ mcreq.clientID # <<>>
            /\ ValidateClientID(mcreq.clientID) # NilError) =>
                /\ mcresp.code \in 400..499
                /\ mcresp.body = [message |-> ValidateClientID(mcreq.clientID)]
                /\ mcresp.type # "application/xml"
        /\ mcreq.host = <<>> =>
                /\ mcresp.code = StatusInternalServerError
                /\ mcresp.body = [message |-> errEmptyHost]

(***************************************************************************)
(* Properties of the IPv4 DHCP server.                                     *)
(***************************************************************************)

\* The static leases of a table that hold the address or the hardware
\* address of a lease.
StaticHolders(ls, ip, mac) ==
    {i \in 1..Len(ls) :
        ls[i].Expiry = leaseExpireStatic /\ (ls[i].IP = ip \/ ls[i].HWAddr = mac)}

LeaseTableSound ==
    /\ \A i, j \in 1..Len(leases) :
          i # j => /\ leases[i].IP # leases[j].IP
                   /\ (IsStatic(leases[i]) /\ IsStatic(leases[j])
                        => leases[i].HWAddr # leases[j].HWAddr)
    /\ \A p \in statics :
          \E i \in 1..Len(leases) :
              leases[i] = Lease(p[1], p[2], leaseExpireStatic)
    /\ Len(GetLeases(leases, LeasesStatic)) = Cardinality(statics)

DuplicateStaticFails ==
    (/\ dhcpret'.op = "AddStaticLease"
     /\ StaticHolders(leases, dhcpret'.ip, dhcpret'.mac) # {})
        => dhcpret'.err /\ leases' = leases

\* C25: after any sequence of AddStaticLease, RemoveStaticLease and
\* processed messages no two leases have the same address and no two static
\* leases the same hardware address; an AddStaticLease whose address or
\* hardware address is that of a static lease fails and leaves the table
\* as it was; and every static lease that was accepted is stored with the
\* static expiry.
C25_LeaseTableInvariants ==
    []LeaseTableSound /\ [][DuplicateStaticFails]_vars

\* A static lease and a dynamic lease are stored and a second static lease
\* for a held hardware address has just been refused.
C25_Witness ==
    /\ dhcpret.op = "AddStaticLease"
    /\ dhcpret.err
    /\ \E i \in 1..Len(leases) :
          IsStatic(leases[i]) /\ leases[i].HWAddr = dhcpret.mac
                              /\ leases[i].IP # dhcpret.ip
    /\ \E i \in 1..Len(leases) : ~IsStatic(leases[i])

\* The dynamic leases of a table that hold the address or the hardware
\* address of a lease.
DynamicHolders(ls, ip, mac) ==
    {i \in 1..Len(ls) :
        ls[i].Expiry # leaseExpireStatic /\ (ls[i].IP = ip \/ ls[i].HWAddr = mac)}

StaticReplacesDynamic ==
    (/\ dhcpret'.op = "AddStaticLease"
     /\ StaticHolders(leases, dhcpret'.ip, dhcpret'.mac) = {}
     /\ DynamicHolders(leases, dhcpret'.ip, dhcpret'.mac) # {})
        => /\ ~dhcpret'.err
           /\ \E i \in 1..Len(GetLeases(leases', LeasesStatic)) :
                 GetLeases(leases', LeasesStatic)[i] =
                     Lease(dhcpret'.ip, dhcpret'.mac, leaseExpireStatic)
           /\ DynamicHolders(leases', dhcpret'.ip, dhcpret'.mac) = {}

LeasesOf(ls, mac, static) ==
    {i \in 1..Len(ls) :
        ls[i].HWAddr = mac /\ (ls[i].Expiry = leaseExpireStatic) = static}

\* process has answered the DISCOVER of client m with an OFFER.
Offered(m) ==
    (xchg[m].stage = "init" /\ xchg'[m].stage = "offered")
        => /\ dhcpret'.op = "DISCOVER"
           /\ dhcpret'.type = "OFFER"
           /\ dhcpret'.code = 1
           /\ xchg'[m].offer = dhcpret'.yiaddr
           /\ leases' = leases
           /\ \A i \in LeasesOf(leases, m, TRUE) :
                 dhcpret'.yiaddr = leases[i].IP
           /\ (/\ LeasesOf(leases, m, TRUE) = {}
               /\ LeasesOf(leases, m, FALSE) = {}
               /\ \A i \in 1..Len(leases) : leases[i].IP # RangeStart)
                 => dhcpret'.yiaddr = RangeStart

\* process has handled the REQUEST that client m made from its OFFER, and
\* nothing else changed the table since the OFFER.
Acked(m) ==
    (xchg[m].stage = "offered" /\ xchg'[m].stage = "init" /\ xchg[m].alone)
        => /\ dhcpret'.op = "REQUEST"
           /\ dhcpret'.type = "ACK"
           /\ dhcpret'.code = 1
           /\ dhcpret'.yiaddr = xchg[m].offer
           /\ LeasesOf(leases, m, TRUE) # {}
                 => /\ Cardinality(LeasesOf(leases', m, TRUE)) = 1
                    /\ leases' = leases
           /\ LeasesOf(leases, m, TRUE) = {}
                 => /\ Cardinality(LeasesOf(leases', m, FALSE)) = 1
                    /\ \A i \in LeasesOf(leases', m, FALSE) :
                          leases'[i].IP = xchg[m].offer
                    /\ LeasesOf(leases', m, TRUE) = {}

\* C27: in a DISCOVER, OFFER, REQUEST, ACK exchange with one client the ACK
\* carries the address of the OFFER; a client with a static lease is offered
\* that lease's address and has exactly one static lease after the ACK; a
\* client without a lease is offered the range start when no lease holds
\* it and has exactly one dynamic lease with the offered address after the
\* ACK; the DISCOVER leaves the table alone, the REQUEST commits the lease,
\* and a message that is answered returns 1.
C27_AckRepeatsOffer ==
    [][/\ \A m \in Clients : Offered(m) /\ Acked(m)
       /\ (dhcpret'.type # "") = (dhcpret'.code = 1)]_vars

\* A client with a static lease has just been acknowledged the address it
\* was offered, while another client holds the dynamic lease of the range
\* start that its own exchange committed.
C27_Witness ==
    /\ dhcpret.op = "REQUEST"
    /\ dhcpret.type = "ACK"
    /\ dhcpret.code = 1
    /\ dhcpret.yiaddr = dhcpret.ip
    /\ \E i \in 1..Len(leases) :
          leases[i] = Lease(dhcpret.yiaddr, dhcpret.mac, leaseExpireStatic)
    /\ \E i \in 1..Len(leases), c \in Clients :
          c # dhcpret.mac /\ leases[i] = Lease(RangeStart, c, leaseTime)

(***************************************************************************)
(* Properties of the DNS pipeline stages.                                  *)
(***************************************************************************)

\* The DDR stage runs in this step, on a server that handles DDR.
DDRStageRuns ==
    dnspc = "processDDRQuery" /\ dnspc' # dnspc /\ dnsSrv.HandleDDR

\* The step returns success and leaves the context without a response.
PassesThrough ==
    dnsrc' = resultCodeSuccess /\ ~dctx'.res.set /\ dctx'.res = dctx.res

DHCPHostsStageRuns == dnspc = "processDHCPHosts" /\ dnspc' # dnspc

\* The name of the query lies under the local-domain suffix of the server.
UnderLocalSuffix ==
    /\ Len(dctx.req.Name) >= 2
    /\ dctx.req.Name[Len(dctx.req.Name)] = dnsSrv.localDomainSuffix

\* The host of the query has a lease in the table of the server.
KnownHost == \E p \in dnsSrv.tableHostToIP : p[1] = dctx.req.Name

\* C29: an A query for a host under the local-domain suffix from a client
\* classified as non-local finishes with NXDOMAIN and no answer record, and
\* the same result and response come out for every DHCP host table; a
\* response with an A record goes to a client classified as local only, and
\* a local client that asks for a known host gets exactly one A record with
\* the address leased to the host.
C29_NonLocalClientGetsNXDomain ==
    [][(DHCPHostsStageRuns /\ dctx.req.Qtype = TypeA /\ UnderLocalSuffix) =>
        /\ ~dctx.isLocalClient =>
              /\ dnsrc' = resultCodeFinish
              /\ dctx'.res.set
              /\ dctx'.res.rcode = RcodeNameError
              /\ Len(dctx'.res.answer) = 0
              /\ \A tbl \in HostTables(dnsSrv.localDomainSuffix) :
                    dhcpHosts([dnsSrv EXCEPT !.tableHostToIP = tbl], dctx)
                        = [rc |-> dnsrc', res |-> dctx'.res]
        /\ dctx'.res.answer # <<>> => dctx.isLocalClient /\ KnownHost
        /\ (dctx.isLocalClient /\ KnownHost) =>
              /\ dnsrc' = resultCodeSuccess
              /\ dctx'.res.set
              /\ Len(dctx'.res.answer) = 1
              /\ dctx'.res.answer[1].rrtype = TypeA
              /\ <<dctx.req.Name, dctx'.res.answer[1].data>>
                    \in dnsSrv.tableHostToIP]_vars

\* A client outside the local networks has asked for the address of a host
\* that has a lease and the stage has finished the query with NXDOMAIN.
C29_Witness ==
    /\ dnspc = "done"
    /\ dnsrc = resultCodeFinish
    /\ ~IsLocallyServed(dctx.addr)
    /\ ~dctx.isLocalClient
    /\ dctx.req = [Name |-> <<"example", "lan">>, Qtype |-> TypeA]
    /\ <<<<"example", "lan">>, knownIP>> \in dnsSrv.tableHostToIP
    /\ dnsSrv.localDomainSuffix = defaultLocalDomainSuffix
    /\ dctx.res.rcode = RcodeNameError
    /\ dctx.res.answer = <<>>

\* C30: an A query from a client classified as local for an unknown host
\* under the local-domain suffix passes through the DHCP-hosts stage, which
\* returns success and writes no response; so does every query whose name
\* is outside the local-domain suffix, whatever its type.
C30_UnknownOrOutsidePasses ==
    [][DHCPHostsStageRuns =>
        /\ (/\ dctx.req.Qtype = TypeA
            /\ UnderLocalSuffix
            /\ dctx.isLocalClient
            /\ ~KnownHost) => PassesThrough
        /\ ~UnderLocalSuffix => PassesThrough]_vars

\* A client of the local networks has asked for the address of a host
\* under the local suffix that has no lease, and the stage has returned
\* success without a response.
C30_Witness ==
    /\ dnspc = "processRestrictLocal"
    /\ dnsrc = resultCodeSuccess
    /\ dctx.isLocalClient
    /\ dctx.req = [Name |-> <<"wronghost", "lan">>, Qtype |-> TypeA]
    /\ dnsSrv.localDomainSuffix = defaultLocalDomainSuffix
    /\ dnsSrv.tableHostToIP # {}
    /\ ~dctx.res.set

\* The address a PTR query asks for, <<>> when the query asks for none.
AskedAddr ==
    IF dctx.req.Qtype = TypePTR THEN extractARPASubnet(dctx.req.Name)
    ELSE <<>>

\* The client and the asked address are inside the locally-served space.
ClientInside == IsLocallyServed(dctx.addr)
AskedInside == AskedAddr # <<>> /\ IsLocallyServed(AskedAddr)

\* The names that the records of a resolver give for the asked name.
NamesFrom(records) == {r[2] : r \in {x \in records : x[1] = dctx.req.Name}}

\* The response carries the answer of a resolver that has these names for
\* the asked name: one PTR record with such a name, or none when there is
\* no name.
AnswersWith(names) ==
    /\ dctx.res.set
    /\ IF names = {} THEN dctx.res.answer = <<>>
       ELSE /\ Len(dctx.res.answer) = 1
            /\ dctx.res.answer[1].rrtype = TypePTR
            /\ dctx.res.answer[1].data \in names

\* The pipeline has handled a PTR query for an address.
PTRHandled == dnspc = "done" /\ AskedAddr # <<>>

\* The statement that every PTR query that does not cross the boundary
\* from outside gets the resolver's answer.
C31_SameSideGetsResolverAnswer ==
    PTRHandled =>
        /\ (AskedInside /\ ~ClientInside) => dctx.res.answer = <<>>
        /\ ~(AskedInside /\ ~ClientInside) =>
              AnswersWith(IF AskedInside /\ NamesFrom(dnsSrv.localResolvers) # {}
                          THEN NamesFrom(dnsSrv.localResolvers)
                          ELSE NamesFrom(dnsSrv.upstream))

\* C31: a PTR query for an address inside the locally-served space from a
\* requester outside it is answered without answer records whatever the
\* resolvers know; a PTR query for an outside address gets the upstream's
\* answer whoever asks; a PTR query of a local client for a local address
\* gets the answer of the local resolvers, or else of the upstream, when
\* private reverse DNS is in use, and a response without answer records
\* when it is not.
C31_LocalPTRStaysLocal ==
    PTRHandled =>
        /\ (AskedInside /\ ~ClientInside) =>
              dctx.res.set /\ dctx.res.answer = <<>>
        /\ ~AskedInside => AnswersWith(NamesFrom(dnsSrv.upstream))
        /\ (AskedInside /\ ClientInside /\ dnsSrv.UsePrivateRDNS) =>
              AnswersWith(IF NamesFrom(dnsSrv.localResolvers) # {}
                          THEN NamesFrom(dnsSrv.localResolvers)
                          ELSE NamesFrom(dnsSrv.upstream))
        /\ (AskedInside /\ ClientInside /\ ~dnsSrv.UsePrivateRDNS) =>
              dctx.res.set /\ dctx.res.answer = <<>>

\* A requester outside the local networks has asked for the name of a
\* local address that the upstream and the local resolvers know, and its
\* response has no answer record.
C31_Witness ==
    /\ PTRHandled
    /\ dctx.req.Name = intPTRQuestion
    /\ dctx.addr = <<250, 249, 0, 1>>
    /\ dnsSrv.UsePrivateRDNS
    /\ dnsSrv.localResolvers # {}
    /\ dnsSrv.upstream = PTRRecords
    /\ dctx.res.set
    /\ dctx.res.answer = <<>>

\* ------------------------------------------------------------------------
\* The download command and its workers.
\* ------------------------------------------------------------------------

\* The workers that hold a URL they are not done with.
Processing == {w \in DOMAIN dlWorker :
                 dlWorker[w].pc \in {"getTranslation", "WriteFile"}}

\* C32: for any worker count of at least 1 and any set of configured
\* languages, each language URL is taken by exactly one worker, the GET of
\* every configured language is performed before the program exits, and the
\* command does not return while a worker is still processing a URL.
C32_AllDownloadedBeforeExit ==
    /\ \A l \in dlLangs : dlTaken[l] <= 1
    /\ dlMain \in {"returned", "exited"} =>
         /\ \A l \in dlLangs : dlTaken[l] = 1
         /\ Processing = {}
    /\ dlMain = "exited" => dlGets = dlLangs

(***************************************************************************)
(* The method check of ensure.                                             *)
(***************************************************************************)
\* The requests whose method is not the one their route was registered
\* with, as ensure has found.
WrongMethod == {r \in Reqs : /\ "ensure" \in rran[r]
                             /\ rmethod[r] # RouteOf(rpath[r])}

\* C34: a request whose method differs from the method its route was
\* registered with gets 405 from ensure in one step, whoever holds the
\* control lock; the handler body never runs for it, and it neither takes
\* the control lock nor waits for it, even on a mutating route.
C34_WrongMethodNeverLocks ==
    /\ [][\A r \in Reqs :
            (rpc[r] = "ensure" /\ rpc'[r] # "ensure"
                /\ rmethod'[r] # RouteOf(rpath[r])) =>
                /\ rresp'[r] = StatusMethodNotAllowed
                /\ rpc'[r] = "done"
                /\ controlLock' = controlLock]_vars
    /\ [](\A r \in WrongMethod :
            /\ rpc[r] = "done"
            /\ rresp[r] = StatusMethodNotAllowed
            /\ "handler" \notin rran[r]
            /\ "Lock" \notin rran[r]
            /\ controlLock # r)

\* A request with the wrong method for a mutating route was answered 405
\* while another request held the control lock in its handler.
C34_Witness ==
    \E r1, r2 \in Reqs :
        /\ r1 \in WrongMethod
        /\ RouteOf(rpath[r1]) \in MutatingMethods
        /\ rresp[r1] = StatusMethodNotAllowed
        /\ controlLock = r2
        /\ rpc[r2] = "handler"

(***************************************************************************)
(* The HTTPS gate of postInstall.                                          *)
(***************************************************************************)
\* postInstall has answered the request or called its handler.
Served == piResp.code # StatusNone

\* The request is past the first-run gate.
PastFirstRun == ~NeedsInstall(piCtx.firstRun, piReq.Path)

\* The Host header is malformed other than by a missing port.
MalformedHost == SplitHostPort(piReq.Host).err \notin {"", missingPort}

\* The host of the request: its Host header without the port, if it has one.
RequestHost ==
    IF SplitHostPort(piReq.Host).err = "" THEN SplitHostPort(piReq.Host).host
    ELSE piReq.Host

\* The request has to be sent to HTTPS.
MustUpgrade == piCtx.httpsServer /\ piCtx.forceHTTPS /\ ~piReq.TLS

\* https://<host><path>?<query>, the port appended to the host only when it
\* is not 443.
UpgradedURL ==
    <<"h", "t", "t", "p", "s", ":", "/", "/">>
        \o (IF piCtx.PortHTTPS = 443 THEN RequestHost
            ELSE JoinHostPort(RequestHost, Itoa(piCtx.PortHTTPS)))
        \o piReq.Path
        \o (IF piReq.RawQuery = <<>> THEN <<>> ELSE <<"?">> \o piReq.RawQuery)

Upgraded ==
    /\ piResp.code = StatusTemporaryRedirect
    /\ piResp.Location = UpgradedURL
    /\ ~piResp.handler

Rejected == piResp.code = StatusBadRequest /\ ~piResp.handler

SupportedDays == {0, 1, 7, 30, 90, 365}

\* The interval the legacy GET is to report for configuration c.
LegacyDays(c) ==
    LET days == c.limitIvl.hh \div Day.hh
    IN IF ~c.enabled THEN 0
       ELSE IF days = 0 \/ days \notin SupportedDays THEN 90
       ELSE days

\* The legacy GET has written its answer.
LegacyAnswered == rwpc["get"] = "unlock" /\ rwreq["get"].kind = "GET"

\* C35: the legacy GET reports, for a configuration that was stored while
\* it ran, 0 when the statistics are disabled, 90 when they are enabled and
\* the interval in whole days is 0 or not a supported number of days, and
\* the interval in whole days otherwise.
C35_LegacyInfoDays ==
    LegacyAnswered => \E c \in stored : rwresp.body.interval = LegacyDays(c)

(***************************************************************************)
(* The forward and the reverse table of one reload.                        *)
(***************************************************************************)
\* The (host, address) pairs of the forward table, the address printed, and
\* those of the reverse table.
ForwardPairsOf(host) ==
    {<<host, IPString(table.m[host][i])>> : i \in 1..Len(table.m[host])}

ReversePairsOf(ipStr) ==
    {<<tableReverse.m[ipStr][i], ipStr>> :
        i \in 1..Len(tableReverse.m[ipStr])}

\* C36: after every reload the forward and the reverse hosts table describe
\* the same relation: an IP is in the forward table's list for a host if and
\* only if the host is in the reverse table's list for the IP's string form.
C36_TablesSameRelation ==
    upc = "return" =>
        UNION {ForwardPairsOf(host) : host \in DOMAIN table.m}
            = UNION {ReversePairsOf(ipStr) : ipStr \in DOMAIN tableReverse.m}

(***************************************************************************)
(* Write events and the reloads that follow them.                          *)
(***************************************************************************)
\* The numbers a reload can have: one by New, one by Start, and at most one
\* for each write event.
ReloadNumbers == 1..(MaxEvents + 2)

\* onlyWrites has received a write event from the watcher and has not yet
\* passed it on, and n reloads have started.
Delivered(n) == owPc = "send" /\ nReloads = n /\ watcher = "open"

\* A reload that started after reload n has completed.
ReloadedAfter(n) == nReloads > n /\ upc = "return"

\* C37: when the watcher has delivered a write event, then either the
\* watcher is closed or a reload that starts after the delivery completes,
\* also when the event arrives during a reload or while watcherLoop empties
\* the channel; a queued event leaves the channel only in the select of
\* watcherLoop or in the loop that empties the channel before the reload.
C37_WriteEventReloads ==
    /\ \A n \in ReloadNumbers :
        Delivered(n) ~> (watcher = "closed" \/ ReloadedAfter(n))
    /\ [][Len(onlyWritesChan') < Len(onlyWritesChan) =>
            (wlPc \in {"select", "drain"} /\ wlPc' = "drain")]_vars

\* A write event was delivered while the reload for an earlier one was
\* running, and a reload that started after it has completed.
C37_Witness ==
    /\ nEvents = 2
    /\ nSent = 2
    /\ nTaken = 2
    /\ nDrained = 0
    /\ nWlReloads = 2
    /\ watcher = "open"
    /\ upc = "return"

\* ---------------------------------------------------------------------------
\* C38: whatever the interleaving of the Begin calls that several request-
\* handling tasks make for one address within one TTL window, at most one of
\* them enqueues the address: a Begin that puts the address into the queue
\* finds either no earlier enqueue of it on record or one that lies at least
\* whoisTTL seconds before its own reading of the clock.

Enqueues(c) ==
    /\ wpc[c] = "send"
    /\ wpc'[c] # "send"
    /\ Len(ipChan') > Len(ipChan)

C38_OneEnqueuePerWindow ==
    [][\A c \in Callers :
          Enqueues(c) =>
              \/ lastEnq[wip[c]] = NoTime
              \/ wnow[c] - lastEnq[wip[c]] >= whoisTTL]_vars

\* ---------------------------------------------------------------------------
\* C39: Begin records the next-eligible time before it tries to enqueue, an
\* address dropped because the queue is full still carries a mark of at least
\* now + whoisTTL, and from a drop at second t until t + whoisTTL every Begin
\* for the address returns at its check of the cache and none enqueues the
\* address.

InDropWindow(c) ==
    /\ dropAt[wip[c]] # NoTime
    /\ wnow[c] >= dropAt[wip[c]]
    /\ wnow[c] < dropAt[wip[c]] + whoisTTL

Drops(c) ==
    /\ wpc[c] = "send"
    /\ wpc'[c] # "send"
    /\ ipChan' = ipChan

MarkedFor(ip, now) ==
    /\ CacheHas(ipAddrs, ip)
    /\ Uint64(CacheGet(ipAddrs, ip)) >= now + whoisTTL

C39_DroppedAddressStaysMarked ==
    /\ [][\A c \in Callers :
            (wpc[c] = "Set" /\ wpc'[c] # "Set") =>
                /\ ipChan' = ipChan
                /\ wpc'[c] = "send"]_vars
    /\ [][\A c \in Callers : Drops(c) => MarkedFor(wip[c], wnow[c])]_vars
    /\ [][\A c \in Callers :
            (wpc[c] = "Get" /\ wpc'[c] # "Get" /\ InDropWindow(c)) =>
                wpc'[c] = "idle"]_vars
    /\ [][\A c \in Callers :
            ~(Enqueues(c) /\ InDropWindow(c))]_vars

\* ---------------------------------------------------------------------------
\* C40: the handlers that change the statistics configuration never call
\* configModified while they hold s.lock: at every call of it, the one in the
\* body of handleStatsConfig and the deferred one of either handler, the lock
\* is not held by the calling handler.

CallsConfigModified(t) ==
    \/ /\ rwpc[t] = "deferred"
       /\ rwpc'[t] = "idle"
    \/ /\ t = "post"
       /\ rwpc[t] = "s2"
       /\ rwpc'[t] = "unlock"

C40_CallbackOutsideLock ==
    [][\A t \in {"put", "post"} :
          CallsConfigModified(t) => statsLock # t]_vars

====
